---- MODULE Spec2Model ----
(***************************************************************************)
(* Verification model of the resilient batch-fetch core:                   *)
(*   - RedditClient.batchGetPosts        (src/src/clients/reddit.ts)       *)
(*   - RedditClient.auth / getPost       (src/src/clients/reddit.ts)       *)
(*   - ScraperClient.scrape              (src/unnamed/part_004)            *)
(*   - classifyError / withRetry         (src/unnamed/part_006)            *)
(* Each subsystem has its own specification over the shared variables; the *)
(* variables of the other subsystems keep their initial values.            *)
(***************************************************************************)
EXTENDS Integers, Sequences, FiniteSets, TLC

\* ------------------------------------------------------------------ bounds
\* Longest URL list handed to batchGetPosts (two groups: 10 + 1).
MaxUrls == 11
\* Period of the repeating URL pattern used for lists with duplicates.
DupPeriod == 4
\* Lists up to this length also get rejections whose message matches
\* '429' / 'rate' (the third settle outcome).
MaxRichUrls == 3
\* getPost calls started in one run (and concurrent callers sharing the cache).
MaxCalls == 2
\* Clock ticks of TICK_MS in one run.
MaxTicks == 2
\* Largest target count handed to the allocation functions.
MaxTargets == 50
\* Largest URL count handed to handleGetRedditPosts (MAX_POSTS + 1).
MaxPosts == 51
\* Largest maxRetries option passed to withRetry.
MaxRetriesOpt == 3
\* Largest maxRetries argument passed to scrape.
MaxScrapeRetries == 4
\* Largest number of searches of one aggregation call.
MaxQueries == 3
\* Largest number of "/" at the end of the path of a URL string.
MaxSlashes == 2
\* Longest URL list passed to batchScrape.
MaxScrapeUrls == 61
\* Longest sleep, in steps of BATCH_PAUSE_MS.
MaxSleepSteps == 6
\* Largest maxComments passed to extractComments.
MaxCommentsArg == 20

\* ------------------------------------------------------- program constants
\* REDDIT.BATCH_SIZE
BATCH_SIZE == 10
\* SCRAPER.MAX_TOKENS_BUDGET
MAX_TOKENS_BUDGET == 32000
\* REDDIT.MAX_COMMENT_BUDGET
MAX_COMMENT_BUDGET == 1000
\* REDDIT.MAX_COMMENTS_PER_POST
MAX_COMMENTS_PER_POST == 200
\* sleep(500) between two groups
BATCH_PAUSE_MS == 500
\* REDDIT.MIN_POSTS
MIN_POSTS == 2
\* REDDIT.MAX_POSTS
MAX_POSTS == 50
\* REDDIT.RETRY_COUNT
RETRY_COUNT == 5
\* SCRAPER.RETRY_COUNT
SCRAPER_RETRY_COUNT == 3
\* SCRAPER.RETRY_DELAYS
SCRAPER_RETRY_DELAYS == <<2000, 4000, 8000>>
\* REDDIT.RETRY_DELAYS
REDDIT_RETRY_DELAYS == <<2000, 4000, 8000, 16000, 32000>>
\* DEFAULT_RETRY_OPTIONS.baseDelayMs
DEFAULT_BASE_DELAY_MS == 1000
\* DEFAULT_RETRY_OPTIONS.maxDelayMs
DEFAULT_MAX_DELAY_MS == 30000
\* for (let attempt = 0; attempt < 3; attempt++) in auth
AUTH_ATTEMPTS == 3
\* the 60 s buffer of the cache check
TOKEN_MARGIN_MS == 60000
\* data.expires_in || 3600
DEFAULT_EXPIRES_IN == 3600
\* step of the model clock
TICK_MS == 60 * 1000
\* RESEARCH_RETRY_CONFIG.maxRetries
RESEARCH_MAX_RETRIES == 3
\* RESEARCH_RETRY_CONFIG.baseDelayMs
RESEARCH_BASE_DELAY_MS == 5000
\* RESEARCH_RETRY_CONFIG.maxDelayMs
RESEARCH_MAX_DELAY_MS == 60000

VARIABLES
  \* ---- batchGetPosts
  urls,           \* the input list (URL ids; equal ids = the same URL string)
  hasCallback,    \* whether onBatchComplete was passed
  bpc,            \* "init" | "await" | "sleep" | "resolved" | "rejected"
  batchNum,       \* loop variable of batchGetPosts
  callState,      \* per list index: "notStarted" | "inflight" | "ok" | "rate" | "other"
  allResults,     \* the Map, as a sequence of [url, val] in insertion order
  rateLimitHits,
  cbCalls,        \* sequence of [batchNum, totalBatches, processed, threw]
  batchSleeps,    \* sequence of the delays slept between groups
  batchResult,    \* <<>> until the promise resolves, then <<BatchPostResult>>
  outOfOrder      \* whether a getPost of the running group has settled while
                  \* one of a lower index of the group was still pending

batchVars == <<urls, hasCallback, bpc, batchNum, callState, allResults,
               rateLimitHits, cbCalls, batchSleeps, batchResult, outOfOrder>>

VARIABLES
  \* ---- RedditClient.auth / getPost
  cachedToken,        \* module-level cache: 0 is null, n > 0 the n-th token issued
  cachedTokenExpiry,  \* ms
  now,                \* Date.now(), ms
  issued,             \* number of access tokens the token endpoint has issued
  callsStarted,       \* number of getPost calls started so far
  calls               \* per caller: the record of its current getPost call

redditVars == <<cachedToken, cachedTokenExpiry, now, issued, callsStarted, calls>>

VARIABLES
  \* ---- ScraperClient.scrape
  scrape              \* the record of the scrape call

scrapeVars == <<scrape>>

VARIABLES
  \* ---- withRetry
  wr                  \* the record of the withRetry call

retryVars == <<wr>>

VARIABLES
  \* ---- calls of the pure functions
  eval                \* [pc, fn, arg, result] of the function call under study

evalVars == <<eval>>

VARIABLES
  \* ---- aggregateAndRank / aggregateAndRankReddit
  agg                 \* the record of the aggregation call

aggVars == <<agg>>

vars == <<batchVars, redditVars, scrapeVars, retryVars, evalVars, aggVars>>

\* ------------------------------------------------------------- arithmetic
Min(a, b) == IF a < b THEN a ELSE b
\* Math.ceil(a / b) for a >= 0, b > 0
Ceil(a, b) == (a + b - 1) \div b

\* Values of the variables of a subsystem that does not run.
RedditIdle ==
  /\ cachedToken = 0 /\ cachedTokenExpiry = 0 /\ now = 0 /\ issued = 0
  /\ callsStarted = 0 /\ calls = <<>>

\* The state of scrapeWithFallback when no such call exists: the index of
\* the mode being tried, the modes tried, attemptResults, the requests
\* issued by all its scrape calls, and the response it returns.
IdleFallback ==
  [pc |-> "off", mode |-> 0, tried |-> <<>>, attemptResults |-> <<>>, reqs |-> 0,
   result |-> [statusCode |-> 0, credits |-> 0]]

\* The record of scrape when no scrape call exists.
IdleScrape ==
  [pc |-> "off", maxRetries |-> 0, attempt |-> 0, reqs |-> 0, answers |-> <<>>,
   sleeps |-> <<>>, thrown |-> "", inner |-> "", fb |-> IdleFallback]

ScrapeIdle == scrape = IdleScrape

\* The record of withRetry when no withRetry call exists; lastError starts
\* as { code: UNKNOWN_ERROR, message: 'No attempts made', retryable: false }.
IdleWithRetry ==
  [pc |-> "off", maxRetries |-> 0, onRetry |-> "none", attempt |-> 0,
   invocations |-> 0, outcomes |-> <<>>, delays |-> <<>>, onRetryCalls |-> 0,
   lastError |-> "UNKNOWN_ERROR",
   result |-> [success |-> FALSE, code |-> "", attempts |-> 0]]

RetryIdle == wr = IdleWithRetry

\* The record of the pure-function call when none exists.
IdleEval == [pc |-> "off", fn |-> "", arg |-> <<>>, result |-> <<>>]

EvalIdle == eval = IdleEval

\* The record of the aggregation call when none exists.
IdleAggregation ==
  [pc |-> "off", fn |-> "", searches |-> <<>>, minConsensusUrls |-> 0,
   si |-> 0, ri |-> 0, urlMap |-> <<>>, totalUniqueUrls |-> 0, ti |-> 0,
   tried |-> <<>>, rankedUrls |-> <<>>, frequencyThreshold |-> 0,
   thresholdNote |-> "undefined"]

AggIdle == agg = IdleAggregation

\* ======================================================================
\* RedditClient.batchGetPosts
\* ======================================================================

\* calculateCommentAllocation: Math.floor(1000 / 0) is Infinity, and
\* Math.min(Infinity, 200) is 200.
calculateCommentAllocation(postCount) ==
  LET perPostBase == IF postCount = 0
                     THEN [inf |-> TRUE, n |-> 0]
                     ELSE [inf |-> FALSE, n |-> MAX_COMMENT_BUDGET \div postCount]
      perPostCapped == IF perPostBase.inf THEN MAX_COMMENTS_PER_POST
                       ELSE Min(perPostBase.n, MAX_COMMENTS_PER_POST)
  IN [totalBudget |-> MAX_COMMENT_BUDGET, perPostBase |-> perPostBase,
      perPostCapped |-> perPostCapped, redistributed |-> FALSE]

\* const totalBatches = Math.ceil(urls.length / REDDIT.BATCH_SIZE)
totalBatches == Ceil(Len(urls), BATCH_SIZE)

\* Mutant: the slice has no upper end (every remaining URL is started).
batchUrlsUnbounded(b, n) == (b * BATCH_SIZE + 1)..n

\* urls.slice(startIdx, startIdx + BATCH_SIZE), as 1-based list indices
batchUrls(b, n) == (b * BATCH_SIZE + 1)..Min(b * BATCH_SIZE + BATCH_SIZE, n)

\* Map.prototype.set: an existing key keeps its place, a new key is appended.
MapSet(m, k, v) ==
  IF \E i \in 1..Len(m) : m[i].url = k
  THEN [i \in 1..Len(m) |-> IF m[i].url = k THEN [url |-> k, val |-> v] ELSE m[i]]
  ELSE Append(m, [url |-> k, val |-> v])

MapHas(m, k) == \E i \in 1..Len(m) : m[i].url = k
MapGet(m, k) == (CHOOSE e \in {m[i] : i \in 1..Len(m)} : e.url = k).val

\* The value stored for one settled promise: the PostResult, or
\* new Error(errorMsg); "rate" is an error whose message contains '429' or 'rate'.
recordedValue(st) == IF st = "ok" THEN "PostResult"
                     ELSE IF st = "rate" THEN "ErrorRate" ELSE "Error"

\* Mutant: the loop runs from the last index to the first.
RECURSIVE collectResultsReversed(_, _, _, _)
collectResultsReversed(m, lo, hi, cs) ==
  IF lo > hi THEN m
  ELSE collectResultsReversed(MapSet(m, urls[hi], recordedValue(cs[hi])), lo, hi - 1, cs)

\* The collection loop over batchResults (lines 352-363), from index lo to hi.
RECURSIVE collectResults(_, _, _, _)
collectResults(m, lo, hi, cs) ==
  IF lo > hi THEN m
  ELSE collectResults(MapSet(m, urls[lo], recordedValue(cs[lo])), lo + 1, hi, cs)

\* Mutant: Promise.all instead of Promise.allSettled (the first rejection
\* rejects the awaited promise while siblings are still pending).
PromiseAll(cs, G) ==
  IF \E i \in G : cs[i] \in {"rate", "other"} THEN "rejected"
  ELSE IF \A i \in G : cs[i] = "ok" THEN "settled" ELSE "pending"

\* Promise.allSettled over the group's getPost promises: never rejects,
\* settles once every promise of the group has settled.
PromiseAllSettled(cs, G) ==
  IF \A i \in G : cs[i] # "inflight" THEN "settled" ELSE "pending"

\* Mutant: the callback is invoked outside any try/catch.
unsafeCallback(threw) == IF threw THEN "throw" ELSE "continue"

\* try { onBatchComplete?.(...) } catch (callbackError) { console.error(...) }
safeCallback(threw) == "continue"

\* batchUrls.map(url => this.getPost(url, commentsPerPost)): every getPost
\* of the group is started in the same synchronous step.
startGroup(cs, b) ==
  [i \in 1..Len(urls) |-> IF i \in batchUrls(b, Len(urls)) THEN "inflight" ELSE cs[i]]

InitBatch ==
  /\ \E n \in 0..MaxUrls, p \in {0, DupPeriod} :
       urls = [i \in 1..n |-> IF p = 0 THEN i ELSE ((i - 1) % p) + 1]
  /\ hasCallback \in BOOLEAN
  /\ bpc = "init"
  /\ batchNum = 0
  /\ callState = [i \in 1..Len(urls) |-> "notStarted"]
  /\ allResults = <<>>
  /\ rateLimitHits = 0
  /\ cbCalls = <<>>
  /\ batchSleeps = <<>>
  /\ batchResult = <<>>
  /\ outOfOrder = FALSE
  /\ RedditIdle
  /\ ScrapeIdle
  /\ RetryIdle
  /\ EvalIdle
  /\ AggIdle

\* The value batchGetPosts resolves with (line 380).
BatchPostResult(results, hits) ==
  [results |-> results, batchesProcessed |-> totalBatches,
   totalPosts |-> Len(urls), rateLimitHits |-> hits,
   commentAllocation |-> calculateCommentAllocation(Len(urls))]

\* Entry of batchGetPosts up to its first await (lines 333-350).
BatchEnter ==
  /\ bpc = "init"
  /\ IF 0 < totalBatches
     THEN /\ callState' = startGroup(callState, 0)
          /\ bpc' = "await"
          /\ batchResult' = batchResult
     ELSE /\ bpc' = "resolved"
          /\ batchResult' = <<BatchPostResult(allResults, rateLimitHits)>>
          /\ callState' = callState
  /\ UNCHANGED <<urls, hasCallback, batchNum, allResults, rateLimitHits, cbCalls,
                 batchSleeps, outOfOrder>>
  /\ UNCHANGED redditVars
  /\ UNCHANGED scrapeVars
  /\ UNCHANGED retryVars
  /\ UNCHANGED evalVars
  /\ UNCHANGED aggVars

\* One getPost promise of the running group settles (any order).
GetPostSettles(i, o) ==
  /\ bpc \in {"await", "allAwait"}
  /\ callState[i] = "inflight"
  /\ o = "rate" => Len(urls) <= MaxRichUrls
  /\ callState' = [callState EXCEPT ![i] = o]
  /\ outOfOrder' = (outOfOrder \/ \E j \in 1..(i - 1) : callState[j] = "inflight")
  /\ UNCHANGED <<urls, hasCallback, bpc, batchNum, allResults, rateLimitHits,
                 cbCalls, batchSleeps, batchResult>>
  /\ UNCHANGED redditVars
  /\ UNCHANGED scrapeVars
  /\ UNCHANGED retryVars
  /\ UNCHANGED evalVars
  /\ UNCHANGED aggVars

\* The await of line 348 completes; lines 352-380 run up to the next await
\* (the pause) or to the return.
BatchCollect(threw) ==
  LET G == batchUrls(batchNum, Len(urls))
      awaited == PromiseAllSettled(callState, G)
      lo == batchNum * BATCH_SIZE + 1
      hi == lo + Cardinality(G) - 1
      results == collectResults(allResults, lo, hi, callState)
      hits == rateLimitHits + Cardinality({i \in lo..hi : callState[i] = "rate"})
      cb == IF hasCallback THEN safeCallback(threw) ELSE "continue"
  IN
  /\ bpc = "await"
  /\ awaited # "pending"
  /\ threw => hasCallback
  /\ IF awaited = "rejected"
     THEN /\ bpc' = "rejected"
          /\ UNCHANGED <<allResults, rateLimitHits, cbCalls, batchSleeps, batchResult>>
     ELSE /\ allResults' = results
          /\ rateLimitHits' = hits
          /\ cbCalls' = IF hasCallback
                        THEN Append(cbCalls, [batchNum |-> batchNum + 1,
                                              totalBatches |-> totalBatches,
                                              processed |-> Len(results),
                                              threw |-> threw])
                        ELSE cbCalls
          /\ IF cb = "throw"
             THEN /\ bpc' = "rejected"
                  /\ UNCHANGED <<batchSleeps, batchResult>>
             ELSE IF batchNum < totalBatches - 1
             THEN /\ bpc' = "sleep"
                  /\ batchSleeps' = Append(batchSleeps, BATCH_PAUSE_MS)
                  /\ batchResult' = batchResult
             ELSE /\ bpc' = "resolved"
                  /\ batchResult' = <<BatchPostResult(results, hits)>>
                  /\ batchSleeps' = batchSleeps
  /\ UNCHANGED <<urls, hasCallback, batchNum, callState, outOfOrder>>
  /\ UNCHANGED redditVars
  /\ UNCHANGED scrapeVars
  /\ UNCHANGED retryVars
  /\ UNCHANGED evalVars
  /\ UNCHANGED aggVars

\* sleep(500) resolves; the loop increments batchNum and starts the next group.
BatchPauseDone ==
  /\ bpc = "sleep"
  /\ batchNum' = batchNum + 1
  /\ callState' = startGroup(callState, batchNum + 1)
  /\ bpc' = "await"
  /\ outOfOrder' = FALSE
  /\ UNCHANGED <<urls, hasCallback, allResults, rateLimitHits, cbCalls,
                 batchSleeps, batchResult>>
  /\ UNCHANGED redditVars
  /\ UNCHANGED scrapeVars
  /\ UNCHANGED retryVars
  /\ UNCHANGED evalVars
  /\ UNCHANGED aggVars

NextBatch ==
  \/ BatchEnter
  \/ \E i \in 1..Len(urls), o \in {"ok", "rate", "other"} : GetPostSettles(i, o)
  \/ \E threw \in BOOLEAN : BatchCollect(threw)
  \/ BatchPauseDone

SpecBatch == InitBatch /\ [][NextBatch]_vars

\* getPosts is called (lines 317-325): no callback exists.
InitGetPosts ==
  /\ \E n \in 0..MaxUrls, p \in {0, DupPeriod} :
       urls = [i \in 1..n |-> IF p = 0 THEN i ELSE ((i - 1) % p) + 1]
  /\ hasCallback = FALSE
  /\ bpc = "getPosts"
  /\ batchNum = 0
  /\ callState = [i \in 1..Len(urls) |-> "notStarted"]
  /\ allResults = <<>>
  /\ rateLimitHits = 0
  /\ cbCalls = <<>>
  /\ batchSleeps = <<>>
  /\ batchResult = <<>>
  /\ outOfOrder = FALSE
  /\ RedditIdle
  /\ ScrapeIdle
  /\ RetryIdle
  /\ EvalIdle
  /\ AggIdle

\* Entry of getPosts up to its first await: up to BATCH_SIZE URLs are all
\* started under Promise.all, each with .catch(e => e); a longer list goes to
\* batchGetPosts, which runs up to its own first await.
GetPostsEnter ==
  /\ bpc = "getPosts"
  /\ IF Len(urls) <= BATCH_SIZE
     THEN /\ callState' = [i \in 1..Len(urls) |-> "inflight"]
          /\ bpc' = "allAwait"
     ELSE /\ callState' = startGroup(callState, 0)
          /\ bpc' = "await"
  /\ UNCHANGED <<urls, hasCallback, batchNum, allResults, rateLimitHits, cbCalls,
                 batchSleeps, batchResult, outOfOrder>>
  /\ UNCHANGED redditVars
  /\ UNCHANGED scrapeVars
  /\ UNCHANGED retryVars
  /\ UNCHANGED evalVars
  /\ UNCHANGED aggVars

\* Promise.all of getPosts resolves (no promise under it can reject) and
\* getPosts returns new Map(urls.map((u, i) => [u, results[i]])).
GetPostsCollect ==
  /\ bpc = "allAwait"
  /\ \A i \in 1..Len(urls) : callState[i] # "inflight"
  /\ allResults' = collectResults(<<>>, 1, Len(urls), callState)
  /\ bpc' = "resolved"
  /\ UNCHANGED <<urls, hasCallback, batchNum, callState, rateLimitHits, cbCalls,
                 batchSleeps, batchResult, outOfOrder>>
  /\ UNCHANGED redditVars
  /\ UNCHANGED scrapeVars
  /\ UNCHANGED retryVars
  /\ UNCHANGED evalVars
  /\ UNCHANGED aggVars

\* A call of batchGetPosts, or a call of getPosts.
InitPosts == InitBatch \/ InitGetPosts

NextPosts ==
  \/ NextBatch
  \/ GetPostsEnter
  \/ GetPostsCollect

SpecPosts == InitPosts /\ [][NextPosts]_vars

\* Values of the batch variables while another subsystem runs.
BatchIdle ==
  /\ urls = <<>> /\ hasCallback = FALSE /\ bpc = "idle" /\ batchNum = 0
  /\ callState = <<>> /\ allResults = <<>> /\ rateLimitHits = 0
  /\ cbCalls = <<>> /\ batchSleeps = <<>> /\ batchResult = <<>>
  /\ outOfOrder = FALSE

\* ======================================================================
\* classifyError / classifyHttpError (src/unnamed/part_006)
\* ======================================================================

\* An error value, by the properties classifyError reads: dom (instanceof
\* DOMException), name, code, status (err.response?.status || err.status,
\* 0 when absent), and the message as a template msg plus an argument arg.
ErrorValue(dom, name, code, status, msg, arg) ==
  [dom |-> dom, name |-> name, code |-> code, status |-> status,
   msg |-> msg, arg |-> arg]

\* new Error(msg + arg)
NewError(msg, arg) == ErrorValue(FALSE, "Error", "", 0, msg, arg)
\* the plain object { status: res.status }; its message is String(error)
StatusObject(status) == ErrorValue(FALSE, "", "", status, "[object Object]", 0)
\* what fetch rejects with when the AbortController fires
AbortError == ErrorValue(TRUE, "AbortError", "", 0, "This operation was aborted", 0)
\* a transport fault carrying a Node.js error code
NodeError(code) == ErrorValue(FALSE, "Error", code, 0, "socket error", 0)
\* a fetch failure without code: TypeError('fetch failed')
FetchFailed == ErrorValue(FALSE, "TypeError", "", 0, "fetch failed", 0)
\* what res.json() throws on a malformed body
JsonSyntaxError == ErrorValue(FALSE, "SyntaxError", "", 0, "Unexpected token < in JSON", 0)
NoError == ErrorValue(FALSE, "", "", 0, "", 0)

\* message.includes(needle) / message.toLowerCase().includes(needle), for the
\* message texts of this model (post URLs are taken to contain none of the
\* needles).
msgIncludes(msg, needle) ==
  CASE msg = "Failed to parse Reddit API response" -> needle \in {"parse"}
    [] msg = "Unexpected token < in JSON" -> needle \in {"JSON", "Unexpected token"}
    [] msg = "Request timed out" -> needle \in {"timed out"}
    [] msg = "Request timeout" -> needle \in {"timeout"}
    [] msg = "Gateway timeout" -> needle \in {"timeout"}
    [] msg = "Invalid API key" -> needle \in {"Invalid API"}
    [] msg = "API key missing or invalid" -> FALSE
    [] OTHER -> FALSE

StructuredError(code, message, retryable, statusCode) ==
  [code |-> code, message |-> message, retryable |-> retryable,
   statusCode |-> statusCode]

classifyHttpError(status) ==
  CASE status = 400 -> StructuredError("INVALID_INPUT", "Bad request", FALSE, status)
    [] status = 401 -> StructuredError("AUTH_ERROR", "Invalid API key", FALSE, status)
    [] status = 403 -> StructuredError("QUOTA_EXCEEDED", "Access forbidden or quota exceeded", FALSE, status)
    [] status = 404 -> StructuredError("NOT_FOUND", "Resource not found", FALSE, status)
    [] status = 408 -> StructuredError("TIMEOUT", "Request timeout", TRUE, status)
    [] status = 429 -> StructuredError("RATE_LIMITED", "Rate limit exceeded", TRUE, status)
    [] status = 500 -> StructuredError("INTERNAL_ERROR", "Server error", TRUE, status)
    [] status = 502 -> StructuredError("SERVICE_UNAVAILABLE", "Bad gateway", TRUE, status)
    [] status = 503 -> StructuredError("SERVICE_UNAVAILABLE", "Service unavailable", TRUE, status)
    [] status = 504 -> StructuredError("TIMEOUT", "Gateway timeout", TRUE, status)
    [] status = 510 -> StructuredError("SERVICE_UNAVAILABLE", "Request canceled", TRUE, status)
    [] OTHER -> IF status >= 500
                THEN StructuredError("SERVICE_UNAVAILABLE", "Server error: status", TRUE, status)
                ELSE StructuredError("UNKNOWN_ERROR", "HTTP status: message", FALSE, status)

\* A message of 600 characters that matches no rule, and its first 500; every
\* other message of the model is shorter than 500 characters.
LongMessage == "Lorem ipsum ... (600 characters)"
LongMessageHead == "Lorem ipsum ... (the first 500 characters)"

\* message.substring(0, 500)
substring500(msg) == IF msg = LongMessage THEN LongMessageHead ELSE msg

\* Mutant: the HTTP status is looked at before the timeout markers.
classifyErrorStatusFirst(e) ==
  IF e.dom /\ e.name = "AbortError"
  THEN StructuredError("TIMEOUT", "Request timed out", TRUE, 0)
  ELSE IF e.code \in {"ECONNREFUSED", "ENOTFOUND", "ECONNRESET"}
  THEN StructuredError("NETWORK_ERROR", "Network error: code", TRUE, 0)
  ELSE IF e.status # 0
  THEN classifyHttpError(e.status)
  ELSE IF \/ e.code \in {"ECONNABORTED", "ETIMEDOUT"}
          \/ e.name = "AbortError"
          \/ msgIncludes(e.msg, "timeout")
          \/ msgIncludes(e.msg, "timed out")
  THEN StructuredError("TIMEOUT", "Request timed out", TRUE, 0)
  ELSE IF \/ msgIncludes(e.msg, "API_KEY") \/ msgIncludes(e.msg, "api_key")
          \/ msgIncludes(e.msg, "Invalid API")
  THEN StructuredError("AUTH_ERROR", "API key missing or invalid", FALSE, 0)
  ELSE IF \/ msgIncludes(e.msg, "JSON") \/ msgIncludes(e.msg, "parse")
          \/ msgIncludes(e.msg, "Unexpected token")
  THEN StructuredError("PARSE_ERROR", "Failed to parse response", FALSE, 0)
  ELSE StructuredError("UNKNOWN_ERROR", substring500(e.msg), FALSE, 0)

classifyError(e) ==
  IF e.dom /\ e.name = "AbortError"
  THEN StructuredError("TIMEOUT", "Request timed out", TRUE, 0)
  ELSE IF e.code \in {"ECONNREFUSED", "ENOTFOUND", "ECONNRESET"}
  THEN StructuredError("NETWORK_ERROR", "Network error: code", TRUE, 0)
  ELSE IF \/ e.code \in {"ECONNABORTED", "ETIMEDOUT"}
          \/ e.name = "AbortError"
          \/ msgIncludes(e.msg, "timeout")
          \/ msgIncludes(e.msg, "timed out")
  THEN StructuredError("TIMEOUT", "Request timed out", TRUE, 0)
  ELSE IF e.status # 0
  THEN classifyHttpError(e.status)
  ELSE IF \/ msgIncludes(e.msg, "API_KEY") \/ msgIncludes(e.msg, "api_key")
          \/ msgIncludes(e.msg, "Invalid API")
  THEN StructuredError("AUTH_ERROR", "API key missing or invalid", FALSE, 0)
  ELSE IF \/ msgIncludes(e.msg, "JSON") \/ msgIncludes(e.msg, "parse")
          \/ msgIncludes(e.msg, "Unexpected token")
  THEN StructuredError("PARSE_ERROR", "Failed to parse response", FALSE, 0)
  ELSE StructuredError("UNKNOWN_ERROR", substring500(e.msg), FALSE, 0)

\* TABLE[attempt] || fallback (attempt counts from 0; no table entry is 0)
retryDelay(table, attempt, fallback) ==
  IF attempt + 1 <= Len(table) THEN table[attempt + 1] ELSE fallback

\* ======================================================================
\* RedditClient.auth and RedditClient.getPost
\* ======================================================================

\* Answers of the token endpoint and of the data endpoint.
HttpAnswer(status, body, expiresIn) ==
  [kind |-> "http", status |-> status, body |-> body, expiresIn |-> expiresIn,
   err |-> NoError]
FetchThrows(e) ==
  [kind |-> "throw", status |-> 0, body |-> "", expiresIn |-> 0, err |-> e]

FetchFaults == {FetchThrows(AbortError), FetchThrows(FetchFailed)}
\* body of a 200 token answer: "token" with expires_in in seconds (0: the
\* field is absent), "notoken" (no access_token), "badjson" (res.json() throws)
TokenAnswers ==
  {HttpAnswer(200, "token", e) : e \in {0, 120}}
  \cup {HttpAnswer(200, b, 0) : b \in {"notoken", "badjson"}}
  \cup {HttpAnswer(st, "", 0) : st \in {401, 403, 429, 500}}
  \cup FetchFaults
\* body of a 200 data answer: "ok", "badjson" (res.json() throws),
\* "nopost" (no post in the listing)
DataAnswers ==
  {HttpAnswer(200, b, 0) : b \in {"ok", "badjson", "nopost"}}
  \cup {HttpAnswer(st, "", 0) : st \in {401, 404, 429, 500}}
  \cup FetchFaults
\* Token answers of the runs that exercise the data phase of getPost.
RetryTokenAnswers ==
  {HttpAnswer(200, "token", 0), HttpAnswer(401, "", 0), HttpAnswer(500, "", 0)}

\* A caller that has not called getPost yet.
IdleCall ==
  [pc |-> "idle", epoch |-> 0,
   entry |-> [token |-> 0, expiry |-> 0, now |-> 0],
   authAttempt |-> 0, tokenReqs |-> 0, tokenAnswers |-> <<>>, authSleeps |-> <<>>,
   authVia |-> "none", authCache |-> <<0, 0>>, token |-> 0, issuedAt |-> 0,
   attempt |-> 0, dataReqs |-> 0, answers |-> <<>>, sleeps |-> <<>>,
   lastError |-> "null", lastMessage |-> "", thrown |-> NoError,
   timer |-> "none"]

\* fetchWithTimeout up to its return: the timer that aborts the request is
\* set and the request started (part_006 lines 282-290).
fetchWithTimeout(cr) == [cr EXCEPT !.timer = "pending"]

\* Mutant: the timer is cleared in .then(), on a response only.
fetchSettlesThen(cr, ans) ==
  [cr EXCEPT !.timer = IF ans = FetchThrows(AbortError) THEN "fired"
                       ELSE IF ans.kind = "http" THEN "cleared" ELSE @]

\* The request of fetchWithTimeout settles (part_006 lines 290-292): the
\* AbortError rejection is the timer having fired and aborted the request;
\* .finally() clears the timer on every other settlement.
fetchSettles(cr, ans) ==
  [cr EXCEPT !.timer = IF ans = FetchThrows(AbortError) THEN "fired" ELSE "cleared"]

\* Mutant: the cache check without the 60 s buffer.
cacheValidNoMargin(tok, exp, t) == tok # 0 /\ t < exp

\* cachedToken && Date.now() < cachedTokenExpiry - 60000
cacheValid(tok, exp, t) == tok # 0 /\ t < exp - TOKEN_MARGIN_MS

\* getPost rejects: throw <error>
rejectWith(cr, e) == [cr EXCEPT !.pc = "rejected", !.thrown = e]

\* auth returned a token: getPost goes on to its first data request
\* (lines 187-200).
afterAuthToken(cr, tok, via, cache) ==
  fetchWithTimeout(
    [cr EXCEPT !.authVia = via, !.authCache = cache, !.token = tok,
               !.pc = "dataFetch", !.attempt = 0, !.dataReqs = 1,
               !.lastError = "null", !.lastMessage = ""])

\* Mutant: the null token is not tested and getPost goes on to its data
\* request.
afterAuthNullIgnored(cr, cache) == afterAuthToken(cr, 0, "null", cache)

\* auth returned null: getPost throws (lines 183-185).
afterAuthNull(cr, cache) ==
  rejectWith([cr EXCEPT !.authVia = "null", !.authCache = cache],
             NewError("Reddit authentication failed - check credentials", 0))

\* getPost from its call to its first await: parseUrl, then auth up to the
\* cache hit or to the first token request (lines 176-182, 89-111).
enterGetPost(valid, epoch) ==
  LET cr == [IdleCall EXCEPT !.epoch = epoch,
               !.entry = [token |-> cachedToken, expiry |-> cachedTokenExpiry,
                          now |-> now]]
  IN IF ~valid
     THEN rejectWith(cr, NewError("Invalid Reddit URL format: ", 0))
     ELSE IF cacheValid(cachedToken, cachedTokenExpiry, now)
     THEN afterAuthToken(cr, cachedToken, "hit", <<cachedToken, cachedTokenExpiry>>)
     ELSE fetchWithTimeout(
            [cr EXCEPT !.pc = "authFetch", !.authAttempt = 0, !.tokenReqs = 1])

\* A set S of callers call getPost in the same synchronous step (one
\* batch group: batchUrls.map(url => this.getPost(...))).
StartCalls(S, validOf) ==
  /\ S # {} /\ S \subseteq DOMAIN calls
  /\ \A c \in S : calls[c].pc \in {"idle", "fulfilled", "rejected"}
  /\ callsStarted + Cardinality(S) <= MaxCalls
  /\ callsStarted' = callsStarted + Cardinality(S)
  /\ calls' = [c \in DOMAIN calls |->
                 IF c \in S THEN enterGetPost(validOf[c], callsStarted + 1)
                 ELSE calls[c]]
  /\ UNCHANGED <<cachedToken, cachedTokenExpiry, now, issued>>
  /\ UNCHANGED batchVars
  /\ UNCHANGED scrapeVars
  /\ UNCHANGED retryVars
  /\ UNCHANGED evalVars
  /\ UNCHANGED aggVars

\* Mutant: a 401/403 token answer is retried like a server error.
authOnStatusRetry401(status, attempt) ==
  IF (status >= 500 \/ status \in {401, 403}) /\ attempt < AUTH_ATTEMPTS - 1
  THEN "retry" ELSE "fail"

\* What auth does with a non-ok token answer (lines 113-131).
authOnStatus(status, attempt) ==
  IF status = 401 \/ status = 403 THEN "invalidate"
  ELSE IF status >= 500 /\ attempt < AUTH_ATTEMPTS - 1 THEN "retry"
  ELSE "fail"

\* What auth does in its catch block (lines 144-160).
authOnThrow(err, attempt) ==
  [invalidate |-> err.code = "AUTH_ERROR",
   next |-> IF attempt < AUTH_ATTEMPTS - 1 /\ err.retryable THEN "retry" ELSE "fail"]

authSleep(cr) ==
  [cr EXCEPT !.pc = "authSleep",
             !.authSleeps = Append(@, retryDelay(REDDIT_RETRY_DELAYS, cr.authAttempt, 2000))]

\* Mutant: the expiry is computed without the default of a missing expires_in.
tokenExpiryNoDefault(t, expiresIn) == t + expiresIn * 1000

\* Date.now() + (data.expires_in || 3600) * 1000 (line 141)
tokenExpiry(t, expiresIn) ==
  t + (IF expiresIn = 0 THEN DEFAULT_EXPIRES_IN ELSE expiresIn) * 1000

\* The token request of caller c is answered (lines 102-160).
TokenResponse(c, ans) ==
  LET cr0 == calls[c]
      cr == fetchSettles([cr0 EXCEPT !.tokenAnswers = Append(@, ans)], ans)
      thrown == IF ans.kind = "throw" THEN ans.err ELSE JsonSyntaxError
      err == classifyError(thrown)
      onThrow == authOnThrow(err, cr.authAttempt)
      onStatus == authOnStatus(ans.status, cr.authAttempt)
      expiry == tokenExpiry(now, ans.expiresIn)
  IN
  /\ c \in DOMAIN calls /\ cr0.pc = "authFetch"
  /\ ans \in TokenAnswers
  /\ IF ans.kind = "throw" \/ (ans.status = 200 /\ ans.body = "badjson")
     THEN \* catch (error)
          /\ cachedToken' = IF onThrow.invalidate THEN 0 ELSE cachedToken
          /\ cachedTokenExpiry' = IF onThrow.invalidate THEN 0 ELSE cachedTokenExpiry
          /\ calls' = [calls EXCEPT ![c] =
                         IF onThrow.next = "retry" THEN authSleep(cr)
                         ELSE afterAuthNull(cr, <<cachedToken', cachedTokenExpiry'>>)]
          /\ UNCHANGED issued
     ELSE IF ans.status # 200
     THEN \* !res.ok
          /\ cachedToken' = IF onStatus = "invalidate" THEN 0 ELSE cachedToken
          /\ cachedTokenExpiry' = IF onStatus = "invalidate" THEN 0 ELSE cachedTokenExpiry
          /\ calls' = [calls EXCEPT ![c] =
                         IF onStatus = "retry" THEN authSleep(cr)
                         ELSE afterAuthNull(cr, <<cachedToken', cachedTokenExpiry'>>)]
          /\ UNCHANGED issued
     ELSE IF ans.body = "notoken"
     THEN /\ calls' = [calls EXCEPT ![c] =
                         afterAuthNull(cr, <<cachedToken, cachedTokenExpiry>>)]
          /\ UNCHANGED <<cachedToken, cachedTokenExpiry, issued>>
     ELSE \* the cache is updated and the new token returned (lines 139-142)
          /\ issued' = issued + 1
          /\ cachedToken' = issued + 1
          /\ cachedTokenExpiry' = expiry
          /\ calls' = [calls EXCEPT ![c] =
                         [afterAuthToken(cr, issued + 1, "fresh", <<issued + 1, expiry>>)
                            EXCEPT !.issuedAt = now]]
  /\ UNCHANGED <<now, callsStarted>>
  /\ UNCHANGED batchVars
  /\ UNCHANGED scrapeVars
  /\ UNCHANGED retryVars
  /\ UNCHANGED evalVars
  /\ UNCHANGED aggVars

\* The backoff sleep of auth is over: next token request.
AuthSleepDone(c) ==
  /\ c \in DOMAIN calls /\ calls[c].pc = "authSleep"
  /\ calls' = [calls EXCEPT ![c] =
                 fetchWithTimeout([calls[c] EXCEPT !.pc = "authFetch",
                                                   !.authAttempt = @ + 1,
                                                   !.tokenReqs = @ + 1])]
  /\ UNCHANGED <<cachedToken, cachedTokenExpiry, now, issued, callsStarted>>
  /\ UNCHANGED batchVars
  /\ UNCHANGED scrapeVars
  /\ UNCHANGED retryVars
  /\ UNCHANGED evalVars
  /\ UNCHANGED aggVars

\* Date.now() advances.
Tick ==
  /\ now < MaxTicks * TICK_MS
  /\ now' = now + TICK_MS
  /\ UNCHANGED <<cachedToken, cachedTokenExpiry, issued, callsStarted, calls>>
  /\ UNCHANGED batchVars
  /\ UNCHANGED scrapeVars
  /\ UNCHANGED retryVars
  /\ UNCHANGED evalVars
  /\ UNCHANGED aggVars

\* Mutant: the 429 branch always waits the first delay of the table.
rateLimitDelayFirst(attempt) == retryDelay(REDDIT_RETRY_DELAYS, 0, 32000)

\* const delay = REDDIT.RETRY_DELAYS[attempt] || 32000 (line 204)
rateLimitDelay(attempt) == retryDelay(REDDIT_RETRY_DELAYS, attempt, 32000)

dataSleep(cr, delay) == [cr EXCEPT !.pc = "dataSleep", !.sleeps = Append(@, delay)]

setLastError(cr, le) == [cr EXCEPT !.lastError = le.code, !.lastMessage = le.message]

\* throw new Error(lastError?.message || 'Failed to fetch Reddit post after retries')
exhausted(cr) ==
  rejectWith(cr, NewError(IF cr.lastError = "null" \/ cr.lastMessage = ""
                          THEN "Failed to fetch Reddit post after retries"
                          ELSE cr.lastMessage, 0))

\* The catch block of getPost's loop (lines 262-275) for the error e.
getPostCatch(cr, e) ==
  LET le == classifyError(e)
      cr1 == setLastError(cr, le)
  IN IF ~le.retryable THEN rejectWith(cr1, e)
     ELSE IF cr.attempt < RETRY_COUNT - 1
     THEN dataSleep(cr1, retryDelay(REDDIT_RETRY_DELAYS, cr.attempt, 2000))
     ELSE \* last attempt: no sleep, the loop ends (line 279)
          exhausted([cr1 EXCEPT !.attempt = @ + 1])

\* The try block of getPost's loop for one answer (lines 194-260).
getPostTry(cr, ans) ==
  IF ans.kind = "throw" THEN getPostCatch(cr, ans.err)
  ELSE IF ans.status = 429 THEN dataSleep(cr, rateLimitDelay(cr.attempt))
  ELSE IF ans.status = 404 THEN getPostCatch(cr, NewError("Post not found: ", 0))
  ELSE IF ans.status # 200
  THEN LET le == classifyError(StatusObject(ans.status))
           cr1 == setLastError(cr, le)
       IN IF le.retryable /\ cr.attempt < RETRY_COUNT - 1
          THEN dataSleep(cr1, retryDelay(REDDIT_RETRY_DELAYS, cr.attempt, 2000))
          ELSE getPostCatch(cr1, NewError("Reddit API error: ", ans.status))
  ELSE IF ans.body = "badjson"
  THEN getPostCatch(cr, NewError("Failed to parse Reddit API response", 0))
  ELSE IF ans.body = "nopost"
  THEN getPostCatch(cr, NewError("Post data not found in response: ", 0))
  ELSE [cr EXCEPT !.pc = "fulfilled"]

\* The data request of caller c is answered.
DataResponse(c, ans) ==
  /\ c \in DOMAIN calls /\ calls[c].pc = "dataFetch"
  /\ ans \in DataAnswers
  /\ calls' = [calls EXCEPT ![c] =
                 getPostTry(fetchSettles([calls[c] EXCEPT !.answers = Append(@, ans)],
                                         ans), ans)]
  /\ UNCHANGED <<cachedToken, cachedTokenExpiry, now, issued, callsStarted>>
  /\ UNCHANGED batchVars
  /\ UNCHANGED scrapeVars
  /\ UNCHANGED retryVars
  /\ UNCHANGED evalVars
  /\ UNCHANGED aggVars

\* A backoff sleep of getPost is over: the loop goes to its next attempt,
\* or ends when the attempts are used up.
DataSleepDone(c) ==
  /\ c \in DOMAIN calls /\ calls[c].pc = "dataSleep"
  /\ calls' = [calls EXCEPT ![c] =
                 IF calls[c].attempt + 1 < RETRY_COUNT
                 THEN fetchWithTimeout([calls[c] EXCEPT !.attempt = @ + 1,
                                                        !.dataReqs = @ + 1,
                                                        !.pc = "dataFetch"])
                 ELSE exhausted([calls[c] EXCEPT !.attempt = @ + 1])]
  /\ UNCHANGED <<cachedToken, cachedTokenExpiry, now, issued, callsStarted>>
  /\ UNCHANGED batchVars
  /\ UNCHANGED scrapeVars
  /\ UNCHANGED retryVars
  /\ UNCHANGED evalVars
  /\ UNCHANGED aggVars

\* ======================================================================
\* ScraperClient.scrape (src/unnamed/part_004)
\* ======================================================================

ScrapeAnswers ==
  {HttpAnswer(st, "", 0) : st \in {200, 400, 404, 429, 500, 503}}
  \cup {FetchThrows(FetchFailed)}

\* await this.delay(SCRAPER.RETRY_DELAYS[attempt] || 8000)
scrapeDelay(sc) ==
  [sc EXCEPT !.pc = "sleep",
             !.sleeps = Append(@, retryDelay(SCRAPER_RETRY_DELAYS, sc.attempt, 8000))]

scrapeReject(sc, msg) == [sc EXCEPT !.pc = "rejected", !.thrown = msg]

\* The catch block of scrape's loop (lines 104-116); apiOrRate says whether
\* the error message contains 'API error' or 'rate limited'.
scrapeCatch(sc, msg, apiOrRate) ==
  IF sc.attempt = sc.maxRetries - 1
  THEN \* the message of the caught error is appended (line 106)
       scrapeReject([sc EXCEPT !.inner = msg],
                    "Failed to scrape URL after maxRetries attempts: ")
  ELSE IF ~apiOrRate THEN scrapeDelay(sc)
  ELSE scrapeReject(sc, msg)

\* The try block of scrape's loop for one answer (lines 62-103).
scrapeTry(sc, ans) ==
  IF ans.kind = "throw" THEN scrapeCatch(sc, ans.err.msg, FALSE)
  ELSE IF ans.status = 200 THEN [sc EXCEPT !.pc = "fulfilled"]
  ELSE IF ans.status = 429
  THEN IF sc.attempt < sc.maxRetries - 1 THEN scrapeDelay(sc)
       ELSE scrapeCatch(sc, "Scraper rate limited. Try fewer URLs or retry later.", TRUE)
  ELSE IF ans.status >= 400 /\ ans.status < 500
  THEN scrapeCatch(sc, "Scraper API error: ", TRUE)
  ELSE IF sc.attempt < sc.maxRetries - 1 THEN scrapeDelay(sc)
  ELSE scrapeCatch(sc, "Scraper API error: ", TRUE)

\* scrape(request, maxRetries) up to its first fetch (lines 42-66).
ScrapeEnter ==
  /\ scrape.pc = "idle"
  /\ scrape' = IF 0 < scrape.maxRetries
               THEN [scrape EXCEPT !.pc = "fetch", !.reqs = 1]
               ELSE scrapeReject(scrape, "Unexpected retry loop exit")
  /\ UNCHANGED batchVars
  /\ UNCHANGED redditVars
  /\ UNCHANGED retryVars
  /\ UNCHANGED evalVars
  /\ UNCHANGED aggVars

\* The request of scrape is answered.
ScrapeResponse(ans) ==
  /\ scrape.pc = "fetch"
  /\ ans \in ScrapeAnswers
  /\ scrape' = scrapeTry([scrape EXCEPT !.answers = Append(@, ans)], ans)
  /\ UNCHANGED batchVars
  /\ UNCHANGED redditVars
  /\ UNCHANGED retryVars
  /\ UNCHANGED evalVars
  /\ UNCHANGED aggVars

\* this.delay(...) is over: next attempt.
ScrapeDelayDone ==
  /\ scrape.pc = "sleep"
  /\ scrape' = IF scrape.attempt + 1 < scrape.maxRetries
               THEN [scrape EXCEPT !.attempt = @ + 1, !.reqs = @ + 1, !.pc = "fetch"]
               ELSE scrapeReject([scrape EXCEPT !.attempt = @ + 1],
                                 "Unexpected retry loop exit")
  /\ UNCHANGED batchVars
  /\ UNCHANGED redditVars
  /\ UNCHANGED retryVars
  /\ UNCHANGED evalVars
  /\ UNCHANGED aggVars

\* ---- ScraperClient.scrapeWithFallback

\* const attempts = [...] (lines 123-127)
FallbackModes ==
  <<[mode |-> "basic", country |-> ""],
    [mode |-> "javascript", country |-> ""],
    [mode |-> "javascript", country |-> "us"]>>

\* this.scrape({ url, mode, timeout, country }) up to its first fetch, for
\* the m-th mode; maxRetries takes its default.
startMode(sc, m) ==
  LET fb == [sc.fb EXCEPT !.pc = "running", !.mode = m,
                          !.tried = Append(@, FallbackModes[m])]
      call == [IdleScrape EXCEPT !.maxRetries = SCRAPER_RETRY_COUNT]
  IN IF 0 < call.maxRetries
     THEN [call EXCEPT !.pc = "fetch", !.reqs = 1, !.fb = [fb EXCEPT !.reqs = @ + 1]]
     ELSE [scrapeReject(call, "Unexpected retry loop exit") EXCEPT !.fb = fb]

\* the response scrape returns (lines 95-103): the status of the answer and
\* the credits of the mode
scrapeResult(sc) ==
  [statusCode |-> sc.answers[Len(sc.answers)].status,
   credits |-> IF FallbackModes[sc.fb.mode].mode = "javascript" THEN 5 ELSE 1]

\* attemptResults.push(...), then the next mode of the loop or the throw
\* after it (lines 149-160)
nextMode(sc, msg) ==
  LET pushed == [sc EXCEPT !.fb.attemptResults = Append(@, msg)]
  IN IF sc.fb.mode < Len(FallbackModes)
     THEN startMode(pushed, sc.fb.mode + 1)
     ELSE [pushed EXCEPT !.fb.pc = "threw"]

\* Mutant: an API error of scrape is thrown on instead of being recorded.
afterScrapeRethrow(sc) ==
  IF sc.pc = "fulfilled"
  THEN [sc EXCEPT !.fb.pc = "returned", !.fb.result = scrapeResult(sc)]
  ELSE IF sc.pc = "rejected"
  THEN IF sc.thrown = "Scraper API error: " THEN [sc EXCEPT !.fb.pc = "threw"]
       ELSE nextMode(sc, sc.thrown)
  ELSE sc

\* The body of the loop of scrapeWithFallback after its await (lines
\* 131-157), once the scrape call has settled.
afterScrape(sc) ==
  IF sc.pc = "fulfilled"
  THEN LET result == scrapeResult(sc)
       IN IF result.statusCode >= 200 /\ result.statusCode < 300
          THEN [sc EXCEPT !.fb.pc = "returned", !.fb.result = result]
          ELSE IF result.statusCode = 404
          THEN [sc EXCEPT !.fb.pc = "returned",
                          !.fb.result = [statusCode |-> 404, credits |-> result.credits]]
          ELSE nextMode(sc, "statusCode")
  ELSE IF sc.pc = "rejected" THEN nextMode(sc, sc.thrown)
  ELSE sc

\* scrapeWithFallback(url, options) up to the first fetch of its first mode.
ScrapeWithFallbackEnter ==
  /\ scrape.fb.pc = "idle"
  /\ scrape' = afterScrape(startMode(scrape, 1))
  /\ UNCHANGED batchVars
  /\ UNCHANGED redditVars
  /\ UNCHANGED retryVars
  /\ UNCHANGED evalVars
  /\ UNCHANGED aggVars

\* A request of the running mode is answered: scrape goes on and, when it
\* settles, scrapeWithFallback does.
FallbackResponse(ans) ==
  /\ scrape.fb.pc = "running" /\ scrape.pc = "fetch"
  /\ ans \in ScrapeAnswers
  /\ scrape' = afterScrape(scrapeTry([scrape EXCEPT !.answers = Append(@, ans)], ans))
  /\ UNCHANGED batchVars
  /\ UNCHANGED redditVars
  /\ UNCHANGED retryVars
  /\ UNCHANGED evalVars
  /\ UNCHANGED aggVars

\* this.delay(...) of the running mode is over: next attempt of its scrape.
FallbackDelayDone ==
  /\ scrape.fb.pc = "running" /\ scrape.pc = "sleep"
  /\ scrape' = afterScrape(
       IF scrape.attempt + 1 < scrape.maxRetries
       THEN [scrape EXCEPT !.attempt = @ + 1, !.reqs = @ + 1, !.pc = "fetch",
                           !.fb.reqs = @ + 1]
       ELSE scrapeReject([scrape EXCEPT !.attempt = @ + 1],
                         "Unexpected retry loop exit"))
  /\ UNCHANGED batchVars
  /\ UNCHANGED redditVars
  /\ UNCHANGED retryVars
  /\ UNCHANGED evalVars
  /\ UNCHANGED aggVars

InitFallback ==
  /\ BatchIdle
  /\ RedditIdle
  /\ RetryIdle
  /\ EvalIdle
  /\ AggIdle
  /\ scrape = [IdleScrape EXCEPT !.fb.pc = "idle"]

NextFallback ==
  \/ ScrapeWithFallbackEnter
  \/ \E ans \in ScrapeAnswers : FallbackResponse(ans)
  \/ FallbackDelayDone

SpecFallback == InitFallback /\ [][NextFallback]_vars

\* ======================================================================
\* withRetry (src/unnamed/part_006)
\* ======================================================================

RECURSIVE Pow2(_)
Pow2(n) == IF n = 0 THEN 1 ELSE 2 * Pow2(n - 1)

\* calculateBackoff; Math.random() is tenths / 10 with tenths in 0..9
calculateBackoff(attempt, tenths) ==
  LET exponentialDelay == DEFAULT_BASE_DELAY_MS * Pow2(attempt)
      jitter == (tenths * 3 * exponentialDelay) \div 100
  IN Min(exponentialDelay + jitter, DEFAULT_MAX_DELAY_MS)

\* Values of Math.random() * 10 drawn by the model.
RandomTenths == {0, 9}

\* What one invocation of fn settles with.
FnOk == [ok |-> TRUE, err |-> NoError]
FnThrows(e) == [ok |-> FALSE, err |-> e]
FnOutcomes ==
  {FnOk} \cup {FnThrows(e) : e \in {AbortError, NodeError("ECONNRESET"),
                                     StatusObject(429), StatusObject(401),
                                     FetchFailed}}

wrReturn(w, success, code, attempts) ==
  [w EXCEPT !.pc = "returned",
            !.result = [success |-> success, code |-> code, attempts |-> attempts]]

\* withRetry(fn, options) up to its first await (lines 235-242).
WithRetryEnter ==
  /\ wr.pc = "idle"
  /\ wr' = IF 0 <= wr.maxRetries
           THEN [wr EXCEPT !.pc = "fn", !.invocations = 1]
           ELSE wrReturn(wr, FALSE, wr.lastError, wr.maxRetries + 1)
  /\ UNCHANGED batchVars
  /\ UNCHANGED redditVars
  /\ UNCHANGED scrapeVars
  /\ UNCHANGED evalVars
  /\ UNCHANGED aggVars

\* fn settles with outcome o; on a retryable failure the delay is computed,
\* opts.onRetry is called and the sleep starts (lines 242-262).
FnSettles(o, tenths) ==
  LET w == [wr EXCEPT !.outcomes = Append(@, o)]
      le == classifyError(o.err)
      w1 == [w EXCEPT !.lastError = le.code]
      delayMs == calculateBackoff(wr.attempt, tenths)
  IN
  /\ wr.pc = "fn"
  /\ o \in FnOutcomes /\ tenths \in RandomTenths
  /\ wr' = IF o.ok THEN wrReturn(w, TRUE, "", 0)
           ELSE IF ~le.retryable THEN wrReturn(w1, FALSE, le.code, wr.attempt + 1)
           ELSE IF wr.attempt >= wr.maxRetries
           THEN wrReturn(w1, FALSE, le.code, wr.attempt + 1)
           ELSE IF wr.onRetry = "throws"
           THEN \* the exception of onRetry leaves the catch block
                [w1 EXCEPT !.pc = "threw", !.onRetryCalls = @ + 1]
           ELSE [w1 EXCEPT !.pc = "sleep", !.delays = Append(@, delayMs),
                           !.onRetryCalls = IF wr.onRetry = "none" THEN @ ELSE @ + 1]
  /\ UNCHANGED batchVars
  /\ UNCHANGED redditVars
  /\ UNCHANGED scrapeVars
  /\ UNCHANGED evalVars
  /\ UNCHANGED aggVars

\* sleep(delayMs) is over: next attempt (line 238).
WithRetrySleepDone ==
  /\ wr.pc = "sleep"
  /\ wr' = IF wr.attempt + 1 <= wr.maxRetries
           THEN [wr EXCEPT !.attempt = @ + 1, !.invocations = @ + 1, !.pc = "fn"]
           ELSE wrReturn([wr EXCEPT !.attempt = @ + 1], FALSE, wr.lastError,
                         wr.maxRetries + 1)
  /\ UNCHANGED batchVars
  /\ UNCHANGED redditVars
  /\ UNCHANGED scrapeVars
  /\ UNCHANGED evalVars
  /\ UNCHANGED aggVars

\* ======================================================================
\* sleep(ms, signal)
\* ======================================================================

\* The promise of sleep and what its executor holds: the signal's aborted
\* flag, the timer ("none", "pending", "fired", "cleared") with the time left
\* on it, whether the abort listener is registered, the calls of resolve
\* and reject in their order, and the state of the promise.
SleepState(aborted) ==
  [aborted |-> aborted, abortedAtCall |-> FALSE, timer |-> "none", left |-> 0,
   listener |-> FALSE, abortedWhen |-> "never", settles |-> <<>>,
   promise |-> "pending"]

\* resolve() / reject(): only the first call settles the promise
settlePromise(st, how) ==
  [st EXCEPT !.settles = Append(@, how),
             !.promise = IF @ = "pending" THEN how ELSE @]

\* clearTimeout(timeout)
clearTimeout(timer) == IF timer = "pending" THEN "cleared" ELSE timer

\* Mutant: the abort listener rejects without clearing the timer.
onAbortNoClear(st) == settlePromise([st EXCEPT !.listener = FALSE], "rejected")

\* the abort listener (part_006 lines 220-223); { once: true } removes it
onAbort(st) ==
  settlePromise([st EXCEPT !.timer = clearTimeout(@), !.listener = FALSE], "rejected")

\* sleep(ms, signal) is called: the executor runs (lines 212-224).
SleepCall ==
  /\ eval.pc = "input" /\ eval.fn = "sleep"
  /\ eval' = [eval EXCEPT !.pc = "called", !.result =
       IF eval.arg.signal /\ eval.result.aborted
       THEN settlePromise([eval.result EXCEPT !.abortedAtCall = TRUE], "rejected")
       ELSE [eval.result EXCEPT !.timer = "pending", !.left = eval.arg.ms,
                                !.listener = eval.arg.signal]]
  /\ UNCHANGED batchVars
  /\ UNCHANGED redditVars
  /\ UNCHANGED scrapeVars
  /\ UNCHANGED retryVars
  /\ UNCHANGED aggVars

\* Time passes while the timer is pending.
SleepTimePasses ==
  /\ eval.pc = "called" /\ eval.fn = "sleep"
  /\ eval.result.timer = "pending" /\ eval.result.left > 0
  /\ eval' = [eval EXCEPT !.result.left = @ - BATCH_PAUSE_MS]
  /\ UNCHANGED batchVars
  /\ UNCHANGED redditVars
  /\ UNCHANGED scrapeVars
  /\ UNCHANGED retryVars
  /\ UNCHANGED aggVars

\* The timer fires: setTimeout calls resolve (line 218).
SleepTimerFires ==
  /\ eval.pc = "called" /\ eval.fn = "sleep"
  /\ eval.result.timer = "pending" /\ eval.result.left = 0
  /\ eval' = [eval EXCEPT !.result =
                 settlePromise([eval.result EXCEPT !.timer = "fired"], "resolved")]
  /\ UNCHANGED batchVars
  /\ UNCHANGED redditVars
  /\ UNCHANGED scrapeVars
  /\ UNCHANGED retryVars
  /\ UNCHANGED aggVars

\* The owner of the signal aborts it after the call: the listener runs if
\* it is registered.
SleepSignalAborts ==
  /\ eval.pc = "called" /\ eval.fn = "sleep"
  /\ eval.arg.signal /\ ~eval.result.aborted
  /\ eval' = [eval EXCEPT !.result =
       LET st == [eval.result EXCEPT !.aborted = TRUE,
                                     !.abortedWhen = eval.result.timer]
       IN IF st.listener THEN onAbort(st) ELSE st]
  /\ UNCHANGED batchVars
  /\ UNCHANGED redditVars
  /\ UNCHANGED scrapeVars
  /\ UNCHANGED retryVars
  /\ UNCHANGED aggVars

\* One sleep call: without a signal, with a fresh one, or with one that is
\* already aborted.
InitSleep ==
  /\ BatchIdle
  /\ RedditIdle
  /\ ScrapeIdle
  /\ RetryIdle
  /\ AggIdle
  /\ \E k \in 0..MaxSleepSteps, signal \in BOOLEAN, aborted \in BOOLEAN :
       /\ aborted => signal
       /\ eval = [pc |-> "input", fn |-> "sleep",
                  arg |-> [ms |-> k * BATCH_PAUSE_MS, signal |-> signal],
                  result |-> SleepState(aborted)]

NextSleep ==
  \/ SleepCall
  \/ SleepTimePasses
  \/ SleepTimerFires
  \/ SleepSignalAborts

SpecSleep == InitSleep /\ [][NextSleep]_vars

\* The event loop runs the timer; nothing obliges the signal to abort.
SpecSleepFair ==
  SpecSleep /\ WF_vars(SleepCall) /\ WF_vars(SleepTimePasses) /\ WF_vars(SleepTimerFires)

\* ======================================================================
\* ResearchClient.research (src/src/clients/reddit.ts)
\* ======================================================================

RETRYABLE_RESEARCH_CODES == {429, 500, 502, 503, 504}

\* message.toLowerCase().includes(needle) for the messages of this model
lowerIncludes(msg, needle) ==
  CASE msg = "Request timed out" -> needle = "timed out"
    [] OTHER -> FALSE

\* isRetryableError (lines 586-613)
isRetryableError(e) ==
  \/ e.status # 0 /\ e.status \in RETRYABLE_RESEARCH_CODES
  \/ \E needle \in {"rate limit", "timeout", "timed out", "service unavailable",
                     "connection"} : lowerIncludes(e.msg, needle)

\* calculateBackoff of the research client (lines 618-622); Math.random() is
\* tenths / 10
researchBackoff(attempt, tenths) ==
  LET exponentialDelay == RESEARCH_BASE_DELAY_MS * Pow2(attempt)
      jitter == (tenths * 3 * exponentialDelay) \div 100
  IN Min(exponentialDelay + jitter, RESEARCH_MAX_DELAY_MS)

\* What chat.completions.create settles with: a completion with a choice
\* and content, one with a choice without content, one without choices, or
\* an error.
Completion(choice, content) == [kind |-> "response", choice |-> choice,
                                content |-> content, err |-> NoError]
CompletionThrows(e) == [kind |-> "throw", choice |-> FALSE, content |-> FALSE, err |-> e]
CompletionOutcomes ==
  {Completion(TRUE, TRUE), Completion(TRUE, FALSE), Completion(FALSE, FALSE)}
  \cup {CompletionThrows(e) : e \in {StatusObject(429), StatusObject(401),
                                      NewError("Request timed out", 0), AbortError}}

\* The research call: loop variable, completion calls made, their outcomes,
\* the delays slept, lastError (its code, "undefined" before the first),
\* and the response returned (error is the code of its error field, "none"
\* when the field is absent).
ResearchState ==
  [attempt |-> 0, calls |-> 0, outcomes |-> <<>>, sleeps |-> <<>>,
   lastError |-> "undefined", response |-> [content |-> "", error |-> "none"]]

\* the error response after the loop (lines 750-764)
errorResponse(r) ==
  [r EXCEPT !.response =
     [content |-> "Research failed: ",
      error |-> IF r.lastError = "undefined" THEN "UNKNOWN_ERROR" ELSE r.lastError]]

\* the return of the try block (lines 706-725) for the completion o
completionResponse(r, o) ==
  [r EXCEPT !.response = [content |-> IF o.content THEN "content" ELSE "",
                          error |-> "none"]]

\* research(params) up to its first await (lines 628-690).
ResearchEnter ==
  /\ eval.pc = "input" /\ eval.fn = "research"
  /\ eval' = IF eval.arg.emptyQuestion
             THEN [eval EXCEPT !.pc = "returned",
                               !.result.response =
                                  [content |-> "", error |-> "INVALID_INPUT"]]
             ELSE [eval EXCEPT !.pc = "call", !.result.calls = 1]
  /\ UNCHANGED batchVars
  /\ UNCHANGED redditVars
  /\ UNCHANGED scrapeVars
  /\ UNCHANGED retryVars
  /\ UNCHANGED aggVars

\* The completion call settles with o (lines 685-747).
CompletionSettles(o, tenths) ==
  LET r0 == [eval.result EXCEPT !.outcomes = Append(@, o)]
      more == r0.attempt < RESEARCH_MAX_RETRIES
      slept(r) == [r EXCEPT !.sleeps = Append(@, researchBackoff(r.attempt, tenths))]
  IN
  /\ eval.pc = "call" /\ eval.fn = "research"
  /\ o \in CompletionOutcomes
  /\ IF o.kind = "throw"
     THEN LET r == [r0 EXCEPT !.lastError = classifyError(o.err).code]
          IN IF isRetryableError(o.err) /\ more
             THEN eval' = [eval EXCEPT !.pc = "sleep", !.result = slept(r)]
             ELSE eval' = [eval EXCEPT !.pc = "returned", !.result = errorResponse(r)]
     ELSE IF ~o.content /\ ~o.choice
     THEN LET r == [r0 EXCEPT !.lastError = "INTERNAL_ERROR"]
          IN IF more
             THEN eval' = [eval EXCEPT !.pc = "sleep", !.result = slept(r)]
             ELSE eval' = [eval EXCEPT !.pc = "returned",
                                       !.result = completionResponse(r, o)]
     ELSE eval' = [eval EXCEPT !.pc = "returned", !.result = completionResponse(r0, o)]
  /\ UNCHANGED batchVars
  /\ UNCHANGED redditVars
  /\ UNCHANGED scrapeVars
  /\ UNCHANGED retryVars
  /\ UNCHANGED aggVars

\* The backoff sleep is over: continue, next completion call.
ResearchSleepDone ==
  /\ eval.pc = "sleep" /\ eval.fn = "research"
  /\ eval' = IF eval.result.attempt + 1 <= RESEARCH_MAX_RETRIES
             THEN [eval EXCEPT !.pc = "call", !.result.attempt = @ + 1,
                               !.result.calls = @ + 1]
             ELSE [eval EXCEPT !.pc = "returned",
                               !.result = errorResponse([eval.result EXCEPT !.attempt = @ + 1])]
  /\ UNCHANGED batchVars
  /\ UNCHANGED redditVars
  /\ UNCHANGED scrapeVars
  /\ UNCHANGED retryVars
  /\ UNCHANGED aggVars

InitResearch ==
  /\ BatchIdle
  /\ RedditIdle
  /\ ScrapeIdle
  /\ RetryIdle
  /\ AggIdle
  /\ \E empty \in BOOLEAN :
       eval = [pc |-> "input", fn |-> "research", arg |-> [emptyQuestion |-> empty],
               result |-> ResearchState]

NextResearch ==
  \/ ResearchEnter
  \/ \E o \in CompletionOutcomes, tenths \in RandomTenths : CompletionSettles(o, tenths)
  \/ ResearchSleepDone

SpecResearch == InitResearch /\ [][NextResearch]_vars

\* ======================================================================
\* Specifications
\* ======================================================================

\* One caller runs getPost calls one after the other, or one scrape call runs.
InitRetry ==
  /\ BatchIdle
  /\ RetryIdle
  /\ EvalIdle
  /\ AggIdle
  /\ cachedToken = 0 /\ cachedTokenExpiry = 0 /\ now = 0 /\ issued = 0
  /\ callsStarted = 0
  /\ \/ calls = <<IdleCall>> /\ scrape = IdleScrape
     \/ /\ calls = <<>>
        /\ \E m \in (0..MaxScrapeRetries) \cup {SCRAPER_RETRY_COUNT} :
             scrape = [IdleScrape EXCEPT !.pc = "idle", !.maxRetries = m]

NextRetry ==
  \/ \E valid \in BOOLEAN : StartCalls({1}, <<valid>>)
  \/ \E ans \in RetryTokenAnswers : TokenResponse(1, ans)
  \/ AuthSleepDone(1)
  \/ \E ans \in DataAnswers : DataResponse(1, ans)
  \/ DataSleepDone(1)
  \/ ScrapeEnter
  \/ \E ans \in ScrapeAnswers : ScrapeResponse(ans)
  \/ ScrapeDelayDone

SpecRetry == InitRetry /\ [][NextRetry]_vars

\* Several callers share the token cache and call getPost, concurrently or one
\* after the other; a call is followed up to the return of auth.
InitAuth ==
  /\ BatchIdle
  /\ RetryIdle
  /\ EvalIdle
  /\ AggIdle
  /\ ScrapeIdle
  /\ cachedToken = 0 /\ cachedTokenExpiry = 0 /\ now = 0 /\ issued = 0
  /\ callsStarted = 0
  /\ calls = [c \in 1..MaxCalls |-> IdleCall]

NextAuth ==
  \/ \E S \in SUBSET (DOMAIN calls) : StartCalls(S, [c \in DOMAIN calls |-> TRUE])
  \/ \E c \in DOMAIN calls, ans \in TokenAnswers : TokenResponse(c, ans)
  \/ \E c \in DOMAIN calls : AuthSleepDone(c)
  \/ Tick

SpecAuth == InitAuth /\ [][NextAuth]_vars

\* Data answers of the runs with sibling calls: a good answer, a server
\* error, a transport failure, and the request timing out.
SiblingDataAnswers ==
  {HttpAnswer(200, "ok", 0), HttpAnswer(500, "", 0)} \cup FetchFaults

\* The getPost calls of one batch group run concurrently through
\* authentication and their data requests.
NextSiblings ==
  \/ \E S \in SUBSET (DOMAIN calls) : StartCalls(S, [c \in DOMAIN calls |-> TRUE])
  \/ \E c \in DOMAIN calls : TokenResponse(c, HttpAnswer(200, "token", 0))
  \/ \E c \in DOMAIN calls, ans \in SiblingDataAnswers : DataResponse(c, ans)
  \/ \E c \in DOMAIN calls : DataSleepDone(c)

SpecSiblings == InitAuth /\ [][NextSiblings]_vars

\* One withRetry call; onRetry is absent, returns, or throws.
InitWithRetry ==
  /\ BatchIdle
  /\ EvalIdle
  /\ AggIdle
  /\ RedditIdle
  /\ ScrapeIdle
  /\ \E m \in 0..MaxRetriesOpt, cb \in {"none", "returns", "throws"} :
       wr = [IdleWithRetry EXCEPT !.pc = "idle", !.maxRetries = m, !.onRetry = cb]

NextWithRetry ==
  \/ WithRetryEnter
  \/ \E o \in FnOutcomes, tenths \in RandomTenths : FnSettles(o, tenths)
  \/ WithRetrySleepDone

SpecWithRetry == InitWithRetry /\ [][NextWithRetry]_vars

\* ======================================================================
\* Pure functions
\* ======================================================================

\* Errors handed to classifyError: every combination of the properties it
\* reads (instanceof DOMException, name, code, status, message).
ClassifyInputs ==
  {ErrorValue(dom, name, code, status, msg, 0) :
     dom \in BOOLEAN, name \in {"Error", "AbortError", ""},
     code \in {"", "ECONNREFUSED", "ENOTFOUND", "ECONNRESET", "ECONNABORTED",
               "ETIMEDOUT"},
     status \in {0, 400, 401, 403, 404, 408, 418, 429, 500, 502, 503, 504, 510, 599},
     msg \in {"socket error", "Request timeout", "Request timed out",
              "Invalid API key", "Unexpected token < in JSON",
              "Failed to parse Reddit API response", "[object Object]",
              LongMessage}}

\* classifyError(error) is called and returns.
ClassifyErrorCall ==
  /\ eval.pc = "input" /\ eval.fn = "classifyError"
  /\ eval' = [eval EXCEPT !.pc = "done", !.result = classifyError(eval.arg)]
  /\ UNCHANGED batchVars
  /\ UNCHANGED redditVars
  /\ UNCHANGED scrapeVars
  /\ UNCHANGED retryVars
  /\ UNCHANGED aggVars

InitClassify ==
  /\ BatchIdle
  /\ RedditIdle
  /\ ScrapeIdle
  /\ RetryIdle
  /\ AggIdle
  /\ \E e \in ClassifyInputs :
       eval = [pc |-> "input", fn |-> "classifyError", arg |-> e, result |-> <<>>]

NextClassify == ClassifyErrorCall

SpecClassify == InitClassify /\ [][NextClassify]_vars

\* Mutant: the share is rounded up.
calculateTokenAllocationCeil(urlCount) ==
  IF urlCount <= 0 THEN MAX_TOKENS_BUDGET ELSE Ceil(MAX_TOKENS_BUDGET, urlCount)

\* calculateTokenAllocation (src/src/tools/research.ts lines 268-271)
calculateTokenAllocation(urlCount) ==
  IF urlCount <= 0 THEN MAX_TOKENS_BUDGET ELSE MAX_TOKENS_BUDGET \div urlCount

\* calculateCommentAllocation(postCount) is called and returns.
CalculateCommentAllocationCall ==
  /\ eval.pc = "input" /\ eval.fn = "calculateCommentAllocation"
  /\ eval' = [eval EXCEPT !.pc = "done",
                          !.result = calculateCommentAllocation(eval.arg)]
  /\ UNCHANGED batchVars
  /\ UNCHANGED redditVars
  /\ UNCHANGED scrapeVars
  /\ UNCHANGED retryVars
  /\ UNCHANGED aggVars

\* calculateTokenAllocation(urlCount) is called and returns.
CalculateTokenAllocationCall ==
  /\ eval.pc = "input" /\ eval.fn = "calculateTokenAllocation"
  /\ eval' = [eval EXCEPT !.pc = "done",
                          !.result = calculateTokenAllocation(eval.arg)]
  /\ UNCHANGED batchVars
  /\ UNCHANGED redditVars
  /\ UNCHANGED scrapeVars
  /\ UNCHANGED retryVars
  /\ UNCHANGED aggVars

InitAlloc ==
  /\ BatchIdle
  /\ RedditIdle
  /\ ScrapeIdle
  /\ RetryIdle
  /\ AggIdle
  /\ \E f \in {"calculateCommentAllocation", "calculateTokenAllocation"},
        n \in 0..MaxTargets :
       eval = [pc |-> "input", fn |-> f, arg |-> n, result |-> <<>>]

NextAlloc ==
  \/ CalculateCommentAllocationCall
  \/ CalculateTokenAllocationCall

SpecAlloc == InitAlloc /\ [][NextAlloc]_vars

\* ---- RedditClient.extractComments and handleGetRedditPosts

\* One child of a comment listing: { kind, data: { author, score, replies } }.
CommentNode(kind, author, score, replies) ==
  [kind |-> kind, author |-> author, score |-> score, replies |-> replies]

\* A comment thread with b children per comment and d levels; kinds, authors
\* and scores vary with the position.
RECURSIVE Thread(_, _, _)
Thread(b, d, seed) ==
  IF d = 0 THEN <<>>
  ELSE [i \in 1..b |->
          CommentNode(IF (i + seed) % 9 = 0 THEN "more" ELSE "t1",
                      IF (i + seed) % 8 = 0 THEN "[deleted]"
                      ELSE IF (i + seed) % 3 = 0 THEN "op" ELSE "alice",
                      (i * 7 + seed) % 11,
                      Thread(b, d - 1, seed + i))]

\* The comment listings a post can come with: none, a few, some, many.
NoThread == <<>>
SmallThread == Thread(3, 2, 1)
MediumThread == Thread(5, 2, 2)
LargeThread == Thread(8, 3, 1)
Listings == <<NoThread, SmallThread, MediumThread, LargeThread>>

\* [...items].sort((a, b) => (b.data?.score || 0) - (a.data?.score || 0)):
\* stable, highest score first.
RECURSIVE insertByScore(_, _)
insertByScore(sorted, c) ==
  IF sorted = <<>> THEN <<c>>
  ELSE IF Head(sorted).score >= c.score
       THEN <<Head(sorted)>> \o insertByScore(Tail(sorted), c)
       ELSE <<c>> \o sorted

RECURSIVE sortByScoreFrom(_, _, _)
sortByScoreFrom(items, k, acc) ==
  IF k > Len(items) THEN acc
  ELSE sortByScoreFrom(items, k + 1, insertByScore(acc, items[k]))

sortByScore(items) == sortByScoreFrom(items, 1, <<>>)

\* Mutant: the loop never stops at the limit.
limitReachedNever(result, maxComments) == FALSE

\* if (result.length >= maxComments) return
limitReached(result, maxComments) == Len(result) >= maxComments

\* The for loop of extract from its k-th item on (lines 295-310); result is
\* the array shared by all levels.
RECURSIVE extractFrom(_, _, _, _, _, _)
extractFrom(sorted, k, depth, result, maxComments, opAuthor) ==
  IF k > Len(sorted) THEN result
  ELSE IF limitReached(result, maxComments) THEN result
  ELSE LET c == sorted[k]
       IN IF c.kind # "t1" \/ c.author = "" \/ c.author = "[deleted]"
          THEN extractFrom(sorted, k + 1, depth, result, maxComments, opAuthor)
          ELSE LET pushed == Append(result,
                                    [author |-> c.author, score |-> c.score,
                                     depth |-> depth, isOP |-> c.author = opAuthor])
                   after == IF c.replies # <<>> /\ Len(pushed) < maxComments
                            THEN extractFrom(sortByScore(c.replies), 1, depth + 1,
                                             pushed, maxComments, opAuthor)
                            ELSE pushed
               IN extractFrom(sorted, k + 1, depth, after, maxComments, opAuthor)

\* extractComments(children, maxComments, opAuthor)
extractComments(children, maxComments, opAuthor) ==
  extractFrom(sortByScore(children), 1, 0, <<>>, maxComments, opAuthor)

\* A thread whose best comment was deleted by its author and has two replies,
\* the first of them with a reply of its own.
RemovedParentThread ==
  <<CommentNode("t1", "[deleted]", 9,
      <<CommentNode("t1", "alice", 4, <<CommentNode("t1", "op", 2, <<>>)>>),
        CommentNode("t1", "bob", 3, <<>>)>>),
    CommentNode("t1", "carol", 5, <<>>),
    CommentNode("more", "", 0, <<>>)>>

\* The listings handed to extractComments.
ExtractListings == Listings \o <<RemovedParentThread>>

\* extractComments(children, maxComments, opAuthor) is called and returns.
ExtractCommentsCall ==
  /\ eval.pc = "input" /\ eval.fn = "extractComments"
  /\ eval' = [eval EXCEPT !.pc = "done",
                          !.result = extractComments(ExtractListings[eval.arg.listing],
                                                     eval.arg.maxComments, "op")]
  /\ UNCHANGED batchVars
  /\ UNCHANGED redditVars
  /\ UNCHANGED scrapeVars
  /\ UNCHANGED retryVars
  /\ UNCHANGED aggVars

InitExtract ==
  /\ BatchIdle
  /\ RedditIdle
  /\ ScrapeIdle
  /\ RetryIdle
  /\ AggIdle
  /\ \E l \in DOMAIN ExtractListings, m \in 0..MaxCommentsArg :
       eval = [pc |-> "input", fn |-> "extractComments",
               arg |-> [listing |-> l, maxComments |-> m], result |-> <<>>]

NextExtract == ExtractCommentsCall

SpecExtract == InitExtract /\ [][NextExtract]_vars

\* x || y for numbers
OrElse(x, y) == IF x # 0 THEN x ELSE y

\* commentsPerPost = fetchComments ? (maxCommentsOverride || perPostCapped) : 0
\* (tools/reddit.ts line 114, clients/reddit.ts line 338); 0 is "no override"
commentsPerPostOf(postCount, fetchComments, maxCommentsOverride) ==
  IF fetchComments
  THEN OrElse(maxCommentsOverride, calculateCommentAllocation(postCount).perPostCapped)
  ELSE 0

\* handleGetRedditPosts up to the first group of batchGetPosts: validation,
\* the allocation of the tool, the allocation of the client.
HandleGetRedditPostsEnter ==
  LET a == eval.arg
      ofTool == commentsPerPostOf(a.n, a.fetchComments, a.override)
      ofClient == commentsPerPostOf(a.n, a.fetchComments, ofTool)
  IN
  /\ eval.pc = "input" /\ eval.fn = "handleGetRedditPosts"
  /\ eval' = IF a.n < MIN_POSTS \/ a.n > MAX_POSTS
             THEN [eval EXCEPT !.pc = "done",
                               !.result = [kind |-> "validationError", limit |-> 0,
                                           batchNum |-> 0, fetched |-> 0,
                                           perPost |-> 0, total |-> 0]]
             ELSE [eval EXCEPT !.pc = "batch",
                               !.result = [kind |-> "posts", limit |-> ofClient,
                                           batchNum |-> 0, fetched |-> 0,
                                           perPost |-> 0, total |-> 0]]
  /\ UNCHANGED batchVars
  /\ UNCHANGED redditVars
  /\ UNCHANGED scrapeVars
  /\ UNCHANGED retryVars
  /\ UNCHANGED aggVars

\* One group of batchGetPosts is collected: every getPost of the group was
\* called with the limit; allOk says whether they fulfilled (each with the
\* comments extractComments takes from the post's listing) or were rejected.
GroupFetched(allOk) ==
  LET a == eval.arg
      r == eval.result
      size == Cardinality(batchUrls(r.batchNum, a.n))
      comments == extractComments(Listings[a.listing], r.limit, "op")
      got == IF allOk THEN Len(comments) ELSE 0
      last == r.batchNum + 1 >= Ceil(a.n, BATCH_SIZE)
  IN
  /\ eval.pc = "batch" /\ eval.fn = "handleGetRedditPosts"
  /\ eval' = [eval EXCEPT !.pc = IF last THEN "done" ELSE "batch",
                          !.result = [r EXCEPT !.batchNum = @ + 1,
                                               !.fetched = @ + (IF allOk THEN size ELSE 0),
                                               !.perPost = IF got > @ THEN got ELSE @,
                                               !.total = @ + size * got]]
  /\ UNCHANGED batchVars
  /\ UNCHANGED redditVars
  /\ UNCHANGED scrapeVars
  /\ UNCHANGED retryVars
  /\ UNCHANGED aggVars

InitComments ==
  /\ BatchIdle
  /\ RedditIdle
  /\ ScrapeIdle
  /\ RetryIdle
  /\ AggIdle
  /\ \E n \in 0..MaxPosts, fc \in BOOLEAN, ov \in {0, 300},
        l \in 1..Len(Listings) :
       eval = [pc |-> "input", fn |-> "handleGetRedditPosts",
               arg |-> [n |-> n, fetchComments |-> fc, override |-> ov,
                        listing |-> l],
               result |-> <<>>]

NextComments ==
  \/ HandleGetRedditPostsEnter
  \/ \E allOk \in BOOLEAN : GroupFetched(allOk)

SpecComments == InitComments /\ [][NextComments]_vars

\* ======================================================================
\* aggregateAndRank / aggregateAndRankReddit (src/src/utils/url-aggregator.ts)

\* CTR_WEIGHTS (src/src/config/index.ts), in hundredths: 100.00, 60.00, ...
CTR_WEIGHTS == <<10000, 6000, 4889, 3333, 2889, 2644, 2444, 1778, 1333, 1256>>
\* minConsensusUrls: number = 5 of aggregateAndRank
DEFAULT_MIN_CONSENSUS_URLS == 5
\* minConsensusUrls: number = 3 of aggregateAndRankReddit
DEFAULT_MIN_CONSENSUS_REDDIT == 3

Max(a, b) == IF a > b THEN a ELSE b

\* getCtrWeight, in hundredths: the table for positions 1..10, beyond it
\* Math.max(0, 10 - (position - 10) * 0.5).
getCtrWeight(position) ==
  IF position >= 1 /\ position <= 10
  THEN CTR_WEIGHTS[position]
  ELSE Max(0, 1000 - (position - 10) * 50)

\* A link, as the pieces of its text:
\*   [scheme "://"] ["www."] host path "/"^slashes search
\* scheme is "" when the text has none, and then new URL throws; host and path
\* are in lower case, path without its trailing "/"s ("" for the root);
\* search is the query string with its "?"; upper says whether the text
\* spells host and path with capitals.
Link(scheme, www, host, path, slashes, search, upper) ==
  [scheme |-> scheme, www |-> www, host |-> host, path |-> path,
   slashes |-> slashes, search |-> search, upper |-> upper]

\* The query strings of the model, and .replace(/\/$/, '') on one of them.
Searches == {"", "?q=1", "?q=/"}
stripSearch(search) == IF search = "?q=/" THEN "?q=" ELSE search

\* normalizeUrl. A link that parses: hostname without "www.", then pathname
\* (which is "/" for the root, whatever the text) without one trailing "/",
\* or "/" if nothing is left, then the query string, all in lower case. A
\* link that does not parse: the text in lower case without one trailing "/",
\* taken from the very end of the text.
normalizeUrl(link) ==
  IF link.scheme # ""
  THEN LET inPath == IF link.path = "" /\ link.slashes = 0 THEN 1 ELSE link.slashes
           left == IF inPath > 0 THEN inPath - 1 ELSE 0
       IN Link("", FALSE, link.host, link.path,
               IF link.path = "" /\ left = 0 THEN 1 ELSE left,
               link.search, FALSE)
  ELSE IF link.search # ""
       THEN Link("", link.www, link.host, link.path, link.slashes,
                 stripSearch(link.search), FALSE)
       ELSE Link("", link.www, link.host, link.path,
                 IF link.slashes > 0 THEN link.slashes - 1 ELSE 0, "", FALSE)

LinkA1 == Link("https", TRUE, "a.com", "", 1, "", FALSE)    \* https://www.a.com/
LinkA2 == Link("http", FALSE, "a.com", "", 0, "", TRUE)     \* http://A.com
LinkB1 == Link("https", FALSE, "b.com", "/x", 1, "", FALSE) \* https://b.com/x/
LinkB2 == Link("https", TRUE, "b.com", "/x", 0, "", FALSE)  \* https://www.b.com/x
LinkC1 == Link("https", FALSE, "c.com", "/y", 0, "", FALSE) \* https://c.com/y
LinkD1 == Link("https", FALSE, "d.com", "", 0, "", FALSE)   \* https://d.com
LinkE1 == Link("https", FALSE, "e.com", "", 1, "", FALSE)   \* https://e.com/
LinkN1 == Link("", TRUE, "a.com", "", 1, "", FALSE)         \* www.a.com/

\* A result as the search returns it: the link and the position the search
\* client gives it (item.position, or idx + 1 when the item has none).
hit(link, position) == [link |-> link, position |-> position]

\* The results of a first page: positions 1, 2, ...
numbered(links) == [r \in 1..Len(links) |-> hit(links[r], r)]

\* The result lists one query can return: first pages, a list with a result
\* beyond position 10, and a list from position 30 on.
ResultLists ==
  << numbered(<<>>),
     numbered(<<LinkA1>>),
     numbered(<<LinkA1, LinkA2>>),
     numbered(<<LinkA2, LinkB1>>),
     <<hit(LinkB2, 1), hit(LinkN1, 12)>>,
     numbered(<<LinkA1, LinkB1, LinkC1, LinkD1, LinkE1>>),
     numbered(<<LinkE1, LinkD1, LinkC1, LinkB2, LinkA2>>),
     <<hit(LinkA2, 30), hit(LinkD1, 31)>> >>

\* The i-th search with the result list l: its keyword is its own (the
\* keywords of one call differ), the title names the result it came with.
\* aggregateRedditResults does not read position: it counts the index.
searchOf(i, l) ==
  [keyword |-> i,
   results |-> [r \in 1..Len(l) |-> [link |-> l[r].link,
                                     position |-> l[r].position,
                                     title |-> <<i, r>>]]]

\* Mutant: the existing record's queries are left alone.
addResultNoQuery(urlMap, link, title, position, query) ==
  LET key == normalizeUrl(link)
      at == {i \in 1..Len(urlMap) : urlMap[i].key = key}
  IN IF at # {}
     THEN LET i == CHOOSE j \in at : TRUE
              existing == urlMap[i]
          IN [urlMap EXCEPT ![i] =
                [existing EXCEPT !.frequency = @ + 1,
                                 !.positions = Append(@, position),
                                 !.bestPosition = Min(@, position),
                                 !.totalScore = @ + getCtrWeight(position),
                                 !.title = IF position < existing.positions[1]
                                           THEN title ELSE @]]
     ELSE Append(urlMap, [key |-> key, url |-> link, title |-> title,
                          frequency |-> 1, positions |-> <<position>>,
                          queries |-> <<query>>, bestPosition |-> position,
                          totalScore |-> getCtrWeight(position)])

\* Mutant: bestPosition follows the last occurrence.
addResultLastPosition(urlMap, link, title, position, query) ==
  LET key == normalizeUrl(link)
      at == {i \in 1..Len(urlMap) : urlMap[i].key = key}
  IN IF at # {}
     THEN LET i == CHOOSE j \in at : TRUE
              existing == urlMap[i]
          IN [urlMap EXCEPT ![i] =
                [existing EXCEPT !.frequency = @ + 1,
                                 !.positions = Append(@, position),
                                 !.queries = Append(@, query),
                                 !.bestPosition = position,
                                 !.totalScore = @ + getCtrWeight(position),
                                 !.title = IF position < existing.positions[1]
                                           THEN title ELSE @]]
     ELSE Append(urlMap, [key |-> key, url |-> link, title |-> title,
                          frequency |-> 1, positions |-> <<position>>,
                          queries |-> <<query>>, bestPosition |-> position,
                          totalScore |-> getCtrWeight(position)])

\* The body of the inner loop of aggregateResults and of
\* aggregateRedditResults: the record of the link's key is updated, or a new
\* record is set at the end of the Map. snippet and date go with title.
addResult(urlMap, link, title, position, query) ==
  LET key == normalizeUrl(link)
      at == {i \in 1..Len(urlMap) : urlMap[i].key = key}
  IN IF at # {}
     THEN LET i == CHOOSE j \in at : TRUE
              existing == urlMap[i]
          IN [urlMap EXCEPT ![i] =
                [existing EXCEPT !.frequency = @ + 1,
                                 !.positions = Append(@, position),
                                 !.queries = Append(@, query),
                                 !.bestPosition = Min(@, position),
                                 !.totalScore = @ + getCtrWeight(position),
                                 !.title = IF position < existing.positions[1]
                                           THEN title ELSE @]]
     ELSE Append(urlMap, [key |-> key, url |-> link, title |-> title,
                          frequency |-> 1, positions |-> <<position>>,
                          queries |-> <<query>>, bestPosition |-> position,
                          totalScore |-> getCtrWeight(position)])

\* The results the two loops have not reached yet, as <<search, result>>.
pendingResults(a) ==
  {p \in UNION {{<<s, r>> : r \in 1..Len(a.searches[s].results)} :
                s \in 1..Len(a.searches)} :
     p[1] > a.si \/ (p[1] = a.si /\ p[2] > a.ri)}

nextResult(a) ==
  CHOOSE p \in pendingResults(a) :
    \A q \in pendingResults(a) :
      p[1] < q[1] \/ (p[1] = q[1] /\ p[2] <= q[2])

\* One pass of the inner loop of aggregateResults.
AggregateResultsStep ==
  /\ agg.pc = "aggregate" /\ agg.fn = "aggregateAndRank"
  /\ pendingResults(agg) # {}
  /\ LET p == nextResult(agg)
         search == agg.searches[p[1]]
         result == search.results[p[2]]
     IN agg' = [agg EXCEPT !.si = p[1], !.ri = p[2],
                           !.urlMap = addResult(@, result.link, result.title,
                                                result.position, search.keyword)]
  /\ UNCHANGED batchVars
  /\ UNCHANGED redditVars
  /\ UNCHANGED scrapeVars
  /\ UNCHANGED retryVars
  /\ UNCHANGED evalVars

\* One pass of the inner loop of aggregateRedditResults: position = i + 1.
AggregateRedditResultsStep ==
  /\ agg.pc = "aggregate" /\ agg.fn = "aggregateAndRankReddit"
  /\ pendingResults(agg) # {}
  /\ LET p == nextResult(agg)
         search == agg.searches[p[1]]
         result == search.results[p[2]]
     IN agg' = [agg EXCEPT !.si = p[1], !.ri = p[2],
                           !.urlMap = addResult(@, result.link, result.title,
                                                p[2], search.keyword)]
  /\ UNCHANGED batchVars
  /\ UNCHANGED redditVars
  /\ UNCHANGED scrapeVars
  /\ UNCHANGED retryVars
  /\ UNCHANGED evalVars

\* const thresholds = [3, 2, 1] and [2, 1]
thresholdsOf(fn) == IF fn = "aggregateAndRank" THEN <<3, 2, 1>> ELSE <<2, 1>>

\* The loops are over: urlMap is returned, totalUniqueUrls is its size and
\* usedThreshold starts as the first threshold.
AggregateResultsReturn ==
  /\ agg.pc = "aggregate"
  /\ pendingResults(agg) = {}
  /\ agg' = [agg EXCEPT !.pc = "rank", !.totalUniqueUrls = Len(agg.urlMap),
                        !.ti = 1,
                        !.frequencyThreshold = thresholdsOf(agg.fn)[1]]
  /\ UNCHANGED batchVars
  /\ UNCHANGED redditVars
  /\ UNCHANGED scrapeVars
  /\ UNCHANGED retryVars
  /\ UNCHANGED evalVars

\* filterByFrequency and filterRedditByFrequency, in the order of the Map
filterByFrequency(urlMap, minFrequency) ==
  SelectSeq(urlMap, LAMBDA url : url.frequency >= minFrequency)

\* Mutant: a record goes before the records of its own totalScore.
insertByTotalScoreFirst(sorted, u) ==
  SelectSeq(sorted, LAMBDA x : x.totalScore > u.totalScore)
    \o <<u>> \o SelectSeq(sorted, LAMBDA x : x.totalScore <= u.totalScore)

\* [...urls].sort((a, b) => b.totalScore - a.totalScore): a stable sort
insertByTotalScore(sorted, u) ==
  SelectSeq(sorted, LAMBDA x : x.totalScore >= u.totalScore)
    \o <<u>> \o SelectSeq(sorted, LAMBDA x : x.totalScore < u.totalScore)

RECURSIVE sortByTotalScoreFrom(_, _, _)
sortByTotalScoreFrom(list, k, sorted) ==
  IF k > Len(list) THEN sorted
  ELSE sortByTotalScoreFrom(list, k + 1, insertByTotalScore(sorted, list[k]))

sortByTotalScore(list) == sortByTotalScoreFrom(list, 1, <<>>)

\* Mutant: the division is not guarded.
rankedOfUnguarded(url, index, maxScore, consensusFrom) ==
  [url |-> url.url, title |-> url.title, rank |-> index,
   score |-> [num |-> url.totalScore * 100, den |-> maxScore],
   frequency |-> url.frequency, positions |-> url.positions,
   queries |-> url.queries, bestPosition |-> url.bestPosition,
   isConsensus |-> url.frequency >= consensusFrom]

\* The ranked record of the index-th record of the sorted list; score is the
\* fraction (totalScore / maxScore) * 100, 0 when maxScore is 0.
rankedOf(url, index, maxScore, consensusFrom) ==
  [url |-> url.url, title |-> url.title, rank |-> index,
   score |-> IF maxScore > 0
             THEN [num |-> url.totalScore * 100, den |-> maxScore]
             ELSE [num |-> 0, den |-> 1],
   frequency |-> url.frequency, positions |-> url.positions,
   queries |-> url.queries, bestPosition |-> url.bestPosition,
   isConsensus |-> url.frequency >= consensusFrom]

\* calculateWeightedScores: isConsensus: url.frequency >= 3
calculateWeightedScores(list) ==
  IF Len(list) = 0 THEN <<>>
  ELSE LET sorted == sortByTotalScore(list)
           maxScore == sorted[1].totalScore
       IN [i \in 1..Len(sorted) |-> rankedOf(sorted[i], i, maxScore, 3)]

\* calculateRedditWeightedScores: isConsensus: url.frequency >= 2
calculateRedditWeightedScores(list) ==
  IF Len(list) = 0 THEN <<>>
  ELSE LET sorted == sortByTotalScore(list)
           maxScore == sorted[1].totalScore
       IN [i \in 1..Len(sorted) |-> rankedOf(sorted[i], i, maxScore, 2)]

\* Mutant: a list of exactly minConsensusUrls records is not enough.
acceptThresholdMore(count, minConsensusUrls, threshold) ==
  count > minConsensusUrls \/ threshold = 1

\* rankedUrls.length >= minConsensusUrls || threshold === 1
acceptThreshold(count, minConsensusUrls, threshold) ==
  count >= minConsensusUrls \/ threshold = 1

\* The thresholdNote of aggregateAndRank
webNote(threshold) ==
  IF threshold = 2
  THEN "Note: Frequency filter lowered to >=2 due to result diversity."
  ELSE "Note: Frequency filter lowered to >=1 due to result diversity."

\* The thresholdNote of aggregateAndRankReddit
redditNote(threshold) ==
  IF threshold = 2
  THEN "Note: Frequency filter set to >=2 due to result diversity across queries."
  ELSE "Note: Frequency filter set to >=1 due to result diversity across queries."

\* One pass of the threshold loop of aggregateAndRank; the function returns
\* at the break, or when the thresholds are used up.
AggregateAndRankThreshold ==
  /\ agg.pc = "rank" /\ agg.fn = "aggregateAndRank"
  /\ LET threshold == thresholdsOf(agg.fn)[agg.ti]
         filtered == filterByFrequency(agg.urlMap, threshold)
         ranked == calculateWeightedScores(filtered)
     IN agg' =
          IF acceptThreshold(Len(ranked), agg.minConsensusUrls, threshold)
          THEN [agg EXCEPT !.pc = "done", !.rankedUrls = ranked,
                           !.tried = Append(@, threshold),
                           !.frequencyThreshold = threshold,
                           !.thresholdNote = IF threshold < 3
                                             THEN webNote(threshold) ELSE @]
          ELSE [agg EXCEPT !.pc = IF agg.ti = Len(thresholdsOf(agg.fn))
                                  THEN "done" ELSE "rank",
                           !.rankedUrls = ranked,
                           !.tried = Append(@, threshold),
                           !.ti = @ + 1]
  /\ UNCHANGED batchVars
  /\ UNCHANGED redditVars
  /\ UNCHANGED scrapeVars
  /\ UNCHANGED retryVars
  /\ UNCHANGED evalVars

\* One pass of the threshold loop of aggregateAndRankReddit;
\* totalQueries = searches.size.
AggregateAndRankRedditThreshold ==
  /\ agg.pc = "rank" /\ agg.fn = "aggregateAndRankReddit"
  /\ LET threshold == thresholdsOf(agg.fn)[agg.ti]
         filtered == filterByFrequency(agg.urlMap, threshold)
         ranked == calculateRedditWeightedScores(filtered)
         totalQueries == Len(agg.searches)
     IN agg' =
          IF acceptThreshold(Len(ranked), agg.minConsensusUrls, threshold)
          THEN [agg EXCEPT !.pc = "done", !.rankedUrls = ranked,
                           !.tried = Append(@, threshold),
                           !.frequencyThreshold = threshold,
                           !.thresholdNote = IF threshold < 2 /\ totalQueries > 1
                                             THEN redditNote(threshold) ELSE @]
          ELSE [agg EXCEPT !.pc = IF agg.ti = Len(thresholdsOf(agg.fn))
                                  THEN "done" ELSE "rank",
                           !.rankedUrls = ranked,
                           !.tried = Append(@, threshold),
                           !.ti = @ + 1]
  /\ UNCHANGED batchVars
  /\ UNCHANGED redditVars
  /\ UNCHANGED scrapeVars
  /\ UNCHANGED retryVars
  /\ UNCHANGED evalVars

defaultMinConsensusUrls(fn) ==
  IF fn = "aggregateAndRank"
  THEN DEFAULT_MIN_CONSENSUS_URLS ELSE DEFAULT_MIN_CONSENSUS_REDDIT

\* One call of aggregateAndRank or of aggregateAndRankReddit: up to MaxQueries
\* searches, each with one of the result lists; minConsensusUrls is 1, 2 or
\* left to its default.
InitAggregate ==
  /\ BatchIdle
  /\ RedditIdle
  /\ ScrapeIdle
  /\ RetryIdle
  /\ EvalIdle
  /\ \E fn \in {"aggregateAndRank", "aggregateAndRankReddit"}, n \in 0..MaxQueries :
       \E pick \in [1..n -> 1..Len(ResultLists)],
          m \in {1, 2, defaultMinConsensusUrls(fn)} :
         agg = [IdleAggregation EXCEPT
                  !.pc = "aggregate", !.fn = fn,
                  !.searches = [i \in 1..n |-> searchOf(i, ResultLists[pick[i]])],
                  !.minConsensusUrls = m,
                  !.si = 1, !.ri = 0]

NextAggregate ==
  \/ AggregateResultsStep
  \/ AggregateRedditResultsStep
  \/ AggregateResultsReturn
  \/ AggregateAndRankThreshold
  \/ AggregateAndRankRedditThreshold

SpecAggregate == InitAggregate /\ [][NextAggregate]_vars

\* The call, once started, runs on: nothing but the function itself moves it.
SpecAggregateFair ==
  InitAggregate /\ [][NextAggregate]_vars /\ WF_vars(NextAggregate)

\* ======================================================================
\* normalizeUrl applied to its own result

\* The URL strings normalizeUrl is given: with and without a scheme, with up
\* to MaxSlashes trailing "/"s after the path, with and without a query
\* string.
NormalizeInputs ==
  {Link(scheme, www, "a.com", path, slashes, search, upper) :
     scheme \in {"https", ""}, www \in BOOLEAN, path \in {"", "/x"},
     slashes \in 0..MaxSlashes, search \in Searches, upper \in BOOLEAN}

\* normalizeUrl(u) is called and returns.
NormalizeUrlCall ==
  /\ eval.pc = "input" /\ eval.fn = "normalizeUrl"
  /\ eval' = [eval EXCEPT !.pc = "once", !.result = <<normalizeUrl(eval.arg)>>]
  /\ UNCHANGED batchVars
  /\ UNCHANGED redditVars
  /\ UNCHANGED scrapeVars
  /\ UNCHANGED retryVars
  /\ UNCHANGED aggVars

\* normalizeUrl is called with the string it returned.
NormalizeUrlAgain ==
  /\ eval.pc = "once" /\ eval.fn = "normalizeUrl"
  /\ eval' = [eval EXCEPT !.pc = "twice",
                          !.result = Append(@, normalizeUrl(eval.result[1]))]
  /\ UNCHANGED batchVars
  /\ UNCHANGED redditVars
  /\ UNCHANGED scrapeVars
  /\ UNCHANGED retryVars
  /\ UNCHANGED aggVars

InitNormalize ==
  /\ BatchIdle
  /\ RedditIdle
  /\ ScrapeIdle
  /\ RetryIdle
  /\ AggIdle
  /\ \E u \in NormalizeInputs :
       eval = [pc |-> "input", fn |-> "normalizeUrl", arg |-> u, result |-> <<>>]

NextNormalize ==
  \/ NormalizeUrlCall
  \/ NormalizeUrlAgain

SpecNormalize == InitNormalize /\ [][NextNormalize]_vars

\* ======================================================================
\* ScraperClient.batchScrape (src/unnamed/part_004)

\* SCRAPER.BATCH_SIZE
SCRAPER_BATCH_SIZE == 30
\* await this.delay(500)
SCRAPER_BATCH_PAUSE_MS == 500

\* Math.ceil(urls.length / SCRAPER.BATCH_SIZE)
scrapeBatches(n) == Ceil(n, SCRAPER_BATCH_SIZE)

\* Mutant: the delay follows every group.
pauseAlways(b, batches) == TRUE

\* if (batchNum < totalBatches - 1)
pauseNeeded(b, batches) == b < batches - 1

\* Entry of batchScrape up to its first await: with no URL the loop body never
\* runs and the call returns.
BatchScrapeEnter ==
  /\ eval.pc = "input" /\ eval.fn = "batchScrape"
  /\ eval' = [eval EXCEPT
                !.pc = IF scrapeBatches(eval.arg.n) > 0 THEN "await" ELSE "resolved",
                !.result = [batchNum |-> 0, processed |-> 0, rateLimitHits |-> 0,
                            cbCalls |-> 0, sleeps |-> <<>>]]
  /\ UNCHANGED batchVars
  /\ UNCHANGED redditVars
  /\ UNCHANGED scrapeVars
  /\ UNCHANGED retryVars
  /\ UNCHANGED aggVars

\* Promise.allSettled of the running group resolves: one entry per URL of the
\* group is pushed (hits of the rejections carry a rate-limit message), the
\* callback, if any, is called outside any try, then the delay starts or the
\* call returns.
BatchScrapeGroupSettled(hits, threw) ==
  LET a == eval.arg
      r == eval.result
      lo == r.batchNum * SCRAPER_BATCH_SIZE
      hi == Min(lo + SCRAPER_BATCH_SIZE, a.n)
      r1 == [r EXCEPT !.processed = @ + (hi - lo),
                      !.rateLimitHits = @ + hits,
                      !.cbCalls = IF a.hasCallback THEN @ + 1 ELSE @]
  IN
  /\ eval.pc = "await" /\ eval.fn = "batchScrape"
  /\ hits <= hi - lo
  /\ threw => a.hasCallback
  /\ eval' = IF threw
             THEN [eval EXCEPT !.pc = "rejected", !.result = r1]
             ELSE IF pauseNeeded(r.batchNum, scrapeBatches(a.n))
             THEN [eval EXCEPT !.pc = "delay",
                               !.result = [r1 EXCEPT !.sleeps =
                                             Append(@, SCRAPER_BATCH_PAUSE_MS)]]
             ELSE [eval EXCEPT !.pc = "resolved", !.result = r1]
  /\ UNCHANGED batchVars
  /\ UNCHANGED redditVars
  /\ UNCHANGED scrapeVars
  /\ UNCHANGED retryVars
  /\ UNCHANGED aggVars

\* The delay is over: batchNum++ and, if a group is left, it is started.
BatchScrapeDelayDone ==
  /\ eval.pc = "delay" /\ eval.fn = "batchScrape"
  /\ eval' = [eval EXCEPT
                !.pc = IF eval.result.batchNum + 1 < scrapeBatches(eval.arg.n)
                       THEN "await" ELSE "resolved",
                !.result = [eval.result EXCEPT !.batchNum = @ + 1]]
  /\ UNCHANGED batchVars
  /\ UNCHANGED redditVars
  /\ UNCHANGED scrapeVars
  /\ UNCHANGED retryVars
  /\ UNCHANGED aggVars

InitBatchScrape ==
  /\ BatchIdle
  /\ RedditIdle
  /\ ScrapeIdle
  /\ RetryIdle
  /\ AggIdle
  /\ \E n \in 0..MaxScrapeUrls, cb \in BOOLEAN :
       eval = [pc |-> "input", fn |-> "batchScrape",
               arg |-> [n |-> n, hasCallback |-> cb], result |-> <<>>]

NextBatchScrape ==
  \/ BatchScrapeEnter
  \/ \E hits \in 0..1, threw \in BOOLEAN : BatchScrapeGroupSettled(hits, threw)
  \/ BatchScrapeDelayDone

\* A call of batchGetPosts, or a call of batchScrape.
InitPause == InitBatch \/ InitBatchScrape

NextPause == NextBatch \/ NextBatchScrape

SpecPause == InitPause /\ [][NextPause]_vars

\* ---------------------------------------------------------------- claims
Settled == {"ok", "rate", "other"}
\* the last list index that holds URL u (the call whose outcome Map.set keeps)
lastCall(u) == CHOOSE i \in 1..Len(urls) :
                 urls[i] = u /\ \A j \in (i + 1)..Len(urls) : urls[j] # u
batchOver == bpc \in {"resolved", "rejected"}

\* C1: when batchGetPosts is over, getPost has been invoked (and has settled)
\* for every URL of the list, every URL has an outcome in the map, and that
\* outcome is a PostResult exactly when the URL's own (last) getPost
\* fulfilled, whatever the other calls did.
C1_BatchIsolation ==
  batchOver =>
    /\ \A i \in 1..Len(urls) : callState[i] \in Settled
    /\ \A i \in 1..Len(urls) :
         /\ MapHas(allResults, urls[i])
         /\ (MapGet(allResults, urls[i]) = "PostResult")
              <=> (callState[lastCall(urls[i])] = "ok")

\* C1 witness: 10 distinct targets, only #4 rejected: 9 successes, 1 failure.
C1_Witness ==
  /\ bpc = "resolved" /\ Len(urls) = 10
  /\ \A i \in 1..10 : urls[i] = i /\ (callState[i] = "ok" <=> i # 4)
  /\ Len(allResults) = 10
  /\ Cardinality({k \in 1..10 : allResults[k].val = "PostResult"}) = 9
  /\ MapGet(allResults, 4) = "Error"

\* the number of groups whose outcomes have been collected
groupsCollected == IF bpc \in {"init"} THEN 0
                   ELSE IF bpc = "await" THEN batchNum ELSE batchNum + 1

\* C2: batchGetPosts never rejects; once resolved its result is fully formed,
\* with totalPosts = urls.length and batchesProcessed = ceil(urls.length / 10),
\* the number of groups actually collected.
C2_NeverRejects ==
  /\ bpc # "rejected"
  /\ bpc = "resolved" <=> Len(batchResult) = 1
  /\ bpc = "resolved" =>
       LET r == batchResult[1] IN
       /\ r.totalPosts = Len(urls)
       /\ r.batchesProcessed * BATCH_SIZE >= Len(urls)
       /\ (r.batchesProcessed - 1) * BATCH_SIZE < Len(urls) \/ Len(urls) = 0
       /\ r.batchesProcessed = (IF Len(urls) = 0 THEN 0 ELSE groupsCollected)
       /\ r.results = allResults
       /\ r.rateLimitHits = rateLimitHits

\* C2 witness: every getPost of a two-group list rejected and the callback
\* threw both times, yet the call resolved.
C2_Witness ==
  /\ bpc = "resolved" /\ Len(urls) = 11
  /\ \A i \in 1..Len(urls) : callState[i] = "other"
  /\ Len(cbCalls) = 2 /\ \A k \in 1..2 : cbCalls[k].threw

groupOf(i) == (i - 1) \div BATCH_SIZE

\* C3: at most BATCH_SIZE getPost calls are in flight, and a getPost of a
\* later group has not started unless every getPost of every earlier group
\* has settled and its URL's outcome is in the result map.
C3_SequentialGroups ==
  /\ Cardinality({i \in 1..Len(urls) : callState[i] = "inflight"}) <= BATCH_SIZE
  /\ \A i, j \in 1..Len(urls) :
       (groupOf(j) < groupOf(i) /\ callState[i] # "notStarted")
         => (callState[j] \in Settled /\ MapHas(allResults, urls[j]))

\* C3 witness: the one call of the second group is in flight.
C3_Witness ==
  /\ Len(urls) = 11 /\ callState[11] = "inflight"
  /\ \A j \in 1..10 : callState[j] \in Settled

\* The answers are k times HTTP 429 and then one 200 with a good body.
rateLimitedThenOk(answers) ==
  /\ Len(answers) >= 1
  /\ \A i \in 1..(Len(answers) - 1) :
       answers[i].kind = "http" /\ answers[i].status = 429
  /\ answers[Len(answers)].kind = "http"
  /\ answers[Len(answers)].status = 200
  /\ answers[Len(answers)].body \in {"ok", ""}

\* C4: when the upstream answers HTTP 429 to the first k attempts and 200 to
\* attempt k+1 (k+1 within the attempt budget, the k delays within the delay
\* table), getPost and scrape each make exactly k+1 requests, return a
\* success, and have slept exactly k times, with the delays RETRY_DELAYS[0],
\* ..., RETRY_DELAYS[k-1] of their own table in that order.
C4_RateLimitFollowsDelayTable ==
  /\ \A c \in DOMAIN calls :
       LET cr == calls[c]
           k == Len(cr.answers) - 1
       IN (rateLimitedThenOk(cr.answers) /\ k + 1 <= 5) =>
            /\ cr.pc = "fulfilled"
            /\ cr.dataReqs = k + 1
            /\ cr.sleeps = SubSeq(<<2000, 4000, 8000, 16000, 32000>>, 1, k)
  /\ LET k == Len(scrape.answers) - 1
     IN (rateLimitedThenOk(scrape.answers) /\ k + 1 <= scrape.maxRetries /\ k <= 3) =>
          /\ scrape.pc = "fulfilled"
          /\ scrape.reqs = k + 1
          /\ scrape.sleeps = SubSeq(<<2000, 4000, 8000>>, 1, k)

\* getPost has answered 429, 429, 200: three requests, delays 2000 then 4000.
C4_Witness ==
  \E c \in DOMAIN calls :
    /\ calls[c].pc = "fulfilled"
    /\ Len(calls[c].answers) = 3
    /\ rateLimitedThenOk(calls[c].answers)
    /\ calls[c].dataReqs = 3
    /\ calls[c].sleeps = <<2000, 4000>>

\* C5: when the first data request of getPost is answered HTTP 401, getPost
\* makes exactly 1 data request, sleeps never, and the failure it surfaces is
\* classified AUTH_ERROR.
C5_UnauthorizedStopsAsAuthError ==
  \A c \in DOMAIN calls :
    LET cr == calls[c]
    IN (Len(cr.answers) >= 1 /\ cr.answers[1].kind = "http"
        /\ cr.answers[1].status = 401) =>
         /\ cr.pc = "rejected"
         /\ cr.dataReqs = 1
         /\ cr.sleeps = <<>>
         /\ \/ classifyError(cr.thrown).code = "AUTH_ERROR"
            \/ cr.lastError = "AUTH_ERROR"

\* C6: withRetry never throws; it invokes fn at most maxRetries + 1 times,
\* returns success at the first invocation that succeeds, stops at the first
\* non-retryable failure without sleeping, and on failure returns the
\* classification of the last failure with attempts equal to the number of
\* invocations of fn.
C6_WithRetryNeverThrows ==
  /\ wr.pc # "threw"
  /\ wr.invocations <= wr.maxRetries + 1
  /\ wr.invocations \in {Len(wr.outcomes), Len(wr.outcomes) + 1}
  /\ \A i \in 1..Len(wr.outcomes) :
       (wr.outcomes[i].ok \/ ~classifyError(wr.outcomes[i].err).retryable) =>
         /\ i = Len(wr.outcomes)
         /\ wr.pc = "returned"
         /\ wr.result.success = wr.outcomes[i].ok
         /\ Len(wr.delays) = i - 1
  /\ (wr.pc = "returned" /\ ~wr.result.success) =>
       /\ wr.result.attempts = wr.invocations
       /\ wr.result.code = classifyError(wr.outcomes[Len(wr.outcomes)].err).code

\* The token cache was valid when the call entered auth.
entryValid(cr) == cr.entry.token # 0 /\ cr.entry.now < cr.entry.expiry - 60000

\* The call has called auth (its URL was well-formed).
authCalled(cr) == cr.pc # "idle" /\ cr.thrown.msg # "Invalid Reddit URL format: "

\* C7: auth returns the cached token without any token request exactly when
\* a token is cached and now < cachedTokenExpiry - 60000 at its entry; in
\* every other state it has issued a token request, and returns a token only
\* after a token request was answered 200 with an access token.
C7_CacheHitNoIO ==
  \A c \in DOMAIN calls :
    LET cr == calls[c]
    IN authCalled(cr) =>
         /\ entryValid(cr) =>
              /\ cr.authVia = "hit"
              /\ cr.tokenReqs = 0
              /\ cr.token = cr.entry.token
         /\ ~entryValid(cr) =>
              /\ cr.authVia # "hit"
              /\ cr.tokenReqs >= 1
              /\ cr.token # 0 =>
                   /\ cr.authVia = "fresh"
                   /\ Len(cr.tokenAnswers) = cr.tokenReqs
                   /\ cr.tokenAnswers[Len(cr.tokenAnswers)].status = 200
                   /\ cr.tokenAnswers[Len(cr.tokenAnswers)].body = "token"

\* A call was served from a cache whose token expires in 120 s.
C7_Witness ==
  \E c \in DOMAIN calls :
    /\ calls[c].authVia = "hit"
    /\ calls[c].tokenReqs = 0
    /\ calls[c].token # 0
    /\ calls[c].entry.expiry - calls[c].entry.now <= 120000

\* C8: the getPost calls of one group that start concurrently while the
\* cached token is absent or expired do not each issue their own token
\* request.
C8_NoDuplicateAuthentication ==
  \A c1, c2 \in DOMAIN calls :
    (/\ c1 # c2
     /\ calls[c1].epoch # 0 /\ calls[c1].epoch = calls[c2].epoch
     /\ ~entryValid(calls[c1]) /\ ~entryValid(calls[c2]))
    => ~(calls[c1].tokenReqs >= 1 /\ calls[c2].tokenReqs >= 1)

\* The i-th token answer of the call is HTTP 401 or 403.
tokenDenied(cr, i) ==
  cr.tokenAnswers[i].kind = "http" /\ cr.tokenAnswers[i].status \in {401, 403}

\* C9: a 401 or 403 answer to the token request ends auth at once: it is the
\* last token request of the call, no sleep follows it, the cache is left
\* cleared and auth returns null; the token answers that are followed by a
\* sleep and another request are 5xx answers and retryable transport faults
\* only, and a call makes at most 3 token requests.
C9_TokenDeniedEndsAuth ==
  \A c \in DOMAIN calls :
    LET cr == calls[c]
    IN /\ cr.tokenReqs <= 3
       /\ Len(cr.authSleeps) <= 2
       /\ \A i \in 1..Len(cr.tokenAnswers) :
            tokenDenied(cr, i) =>
              /\ i = Len(cr.tokenAnswers)
              /\ cr.tokenReqs = i
              /\ Len(cr.authSleeps) = i - 1
              /\ cr.pc = "rejected"
              /\ cr.authVia = "null"
              /\ cr.token = 0
              /\ cr.authCache = <<0, 0>>
       /\ \A i \in 1..Len(cr.authSleeps) :
            \/ cr.tokenAnswers[i].kind = "http" /\ cr.tokenAnswers[i].status >= 500
            \/ /\ cr.tokenAnswers[i].kind = "throw"
               /\ classifyError(cr.tokenAnswers[i].err).retryable

\* A call that entered auth with a stale cached token got a 5xx answer, slept,
\* and was then denied: the cache it found populated is empty.
C9_Witness ==
  \E c \in DOMAIN calls :
    /\ calls[c].entry.token # 0
    /\ Len(calls[c].tokenAnswers) = 2
    /\ calls[c].tokenAnswers[1].status = 500
    /\ tokenDenied(calls[c], 2)
    /\ calls[c].authSleeps = <<2000>>
    /\ calls[c].pc = "rejected"
    /\ cachedToken = 0 /\ cachedTokenExpiry = 0

\* C10: after a data request of getPost is answered HTTP 401 the cached token
\* is cleared, so that the next auth call re-authenticates.
C10_Data401InvalidatesCache ==
  \A c \in DOMAIN calls :
    LET cr == calls[c]
    IN (/\ Len(cr.answers) >= 1
        /\ cr.answers[Len(cr.answers)].kind = "http"
        /\ cr.answers[Len(cr.answers)].status = 401)
       => (cachedToken = 0 /\ cachedTokenExpiry = 0)

\* The pair { token, expiresAt } of the successful token response that call
\* cr received: its access token with Date.now() + expires_in * 1000 (3600 s
\* when the response has no expires_in).
responsePair(cr) ==
  LET last == cr.tokenAnswers[Len(cr.tokenAnswers)]
  IN <<cr.token,
       cr.issuedAt + (IF last.expiresIn = 0 THEN 3600 ELSE last.expiresIn) * 1000>>

\* The call got its token from a token response of its own.
authenticated(cr) == cr.authVia = "fresh" /\ cr.token # 0

\* C11: the pair (cachedToken, cachedTokenExpiry) is always (null, 0) or the
\* token and expiry of one single successful token response, never the token
\* of one response with the expiry of another; and it is the pair of the
\* response handled last: no later successful response exists.
C11_CacheNeverCorrupted ==
  \/ cachedToken = 0 /\ cachedTokenExpiry = 0
  \/ /\ \E c \in DOMAIN calls :
          /\ authenticated(calls[c])
          /\ <<cachedToken, cachedTokenExpiry>> = responsePair(calls[c])
     /\ \A c \in DOMAIN calls :
          authenticated(calls[c]) => calls[c].token <= cachedToken

\* Two calls of the same group both authenticated, with different expiries,
\* and the cache holds the pair of the later response.
C11_Witness ==
  \E c1, c2 \in DOMAIN calls :
    /\ calls[c1].epoch = calls[c2].epoch
    /\ authenticated(calls[c1]) /\ authenticated(calls[c2])
    /\ calls[c1].token < calls[c2].token
    /\ responsePair(calls[c1])[2] # responsePair(calls[c2])[2]
    /\ <<cachedToken, cachedTokenExpiry>> = responsePair(calls[c2])

\* C12: the retryable flag returned by classifyError is true exactly for the
\* codes RATE_LIMITED, TIMEOUT, NETWORK_ERROR and SERVICE_UNAVAILABLE, and
\* false for AUTH_ERROR, INVALID_INPUT, NOT_FOUND, QUOTA_EXCEEDED,
\* INTERNAL_ERROR, PARSE_ERROR and UNKNOWN_ERROR.
C12_RetryableFollowsCode ==
  (eval.pc = "done" /\ eval.fn = "classifyError") =>
    /\ eval.result.code \in
         {"RATE_LIMITED", "TIMEOUT", "NETWORK_ERROR", "SERVICE_UNAVAILABLE",
          "AUTH_ERROR", "INVALID_INPUT", "NOT_FOUND", "QUOTA_EXCEEDED",
          "INTERNAL_ERROR", "PARSE_ERROR", "UNKNOWN_ERROR"}
    /\ eval.result.retryable <=>
         eval.result.code \in
           {"RATE_LIMITED", "TIMEOUT", "NETWORK_ERROR", "SERVICE_UNAVAILABLE"}

commentAllocationDone == eval.pc = "done" /\ eval.fn = "calculateCommentAllocation"
tokenAllocationDone == eval.pc = "done" /\ eval.fn = "calculateTokenAllocation"

\* C13: for every target count n >= 1, calculateCommentAllocation(n) gives
\* perPostBase = floor(1000 / n), perPostCapped = min(perPostBase, 200) and
\* redistributed = false, and calculateTokenAllocation(n) = floor(32000 / n):
\* 640 for 50 URLs and 10666 for 3 URLs.
C13_AllocationFormula ==
  /\ (commentAllocationDone /\ eval.arg >= 1) =>
       /\ eval.result.totalBudget = 1000
       /\ ~eval.result.perPostBase.inf
       /\ eval.result.perPostBase.n * eval.arg <= 1000
       /\ (eval.result.perPostBase.n + 1) * eval.arg > 1000
       /\ eval.result.perPostCapped =
            (IF eval.result.perPostBase.n < 200 THEN eval.result.perPostBase.n
             ELSE 200)
       /\ eval.result.redistributed = FALSE
  /\ (tokenAllocationDone /\ eval.arg >= 1) =>
       /\ eval.result * eval.arg <= 32000
       /\ (eval.result + 1) * eval.arg > 32000
       /\ eval.arg = 50 => eval.result = 640
       /\ eval.arg = 3 => eval.result = 10666

\* calculateTokenAllocation(3) has returned 10666.
C13_Witness == tokenAllocationDone /\ eval.arg = 3 /\ eval.result = 10666

\* C14: for a target count of 0 the allocators return the full budget as the
\* per-target share: calculateTokenAllocation(0) = MAX_TOKENS_BUDGET and
\* calculateCommentAllocation(0).perPostBase = MAX_COMMENT_BUDGET, a finite
\* number.
C14_ZeroTargetsFullBudget ==
  /\ (tokenAllocationDone /\ eval.arg = 0) => eval.result = 32000
  /\ (commentAllocationDone /\ eval.arg = 0) =>
       /\ ~eval.result.perPostBase.inf
       /\ eval.result.perPostBase.n = 1000

\* The tool runs with comments fetched and no max_comments override.
smartAllocation ==
  /\ eval.fn = "handleGetRedditPosts" /\ eval.pc \in {"batch", "done"}
  /\ eval.result.kind = "posts"
  /\ eval.arg.fetchComments /\ eval.arg.override = 0

frequencyCounted(record) ==
  /\ record.frequency = Len(record.positions)
  /\ record.frequency = Len(record.queries)
  /\ record.frequency >= 1

\* C16: after every step of aggregateResults and of aggregateRedditResults,
\* and in every record aggregateAndRank and aggregateAndRankReddit return,
\* frequency = length(positions) = length(queries) >= 1.
C16_FrequencyInvariant ==
  agg.pc # "off" =>
    /\ \A i \in DOMAIN agg.urlMap : frequencyCounted(agg.urlMap[i])
    /\ \A i \in DOMAIN agg.rankedUrls : frequencyCounted(agg.rankedUrls[i])

\* A call has returned a record that was updated twice after it was set, next
\* to a record that was set and never updated.
C16_Witness ==
  /\ agg.pc = "done"
  /\ \E i, j \in DOMAIN agg.rankedUrls :
       agg.rankedUrls[i].frequency = 3 /\ agg.rankedUrls[j].frequency = 1

\* the searches whose result list holds a link of this key
queriesWith(key) ==
  {s \in DOMAIN agg.searches :
     \E r \in DOMAIN agg.searches[s].results :
       normalizeUrl(agg.searches[s].results[r].link) = key}

\* C17: once the results are aggregated, and in the ranked list, the frequency
\* of a record is the number of different queries whose results hold a link
\* of the record's key, also when one query holds two such links.
C17_FrequencyCountsDistinctQueries ==
  /\ agg.pc \in {"rank", "done"} =>
       \A i \in DOMAIN agg.urlMap :
         agg.urlMap[i].frequency = Cardinality(queriesWith(agg.urlMap[i].key))
  /\ agg.pc = "done" =>
       \A i \in DOMAIN agg.rankedUrls :
         agg.rankedUrls[i].frequency =
           Cardinality(queriesWith(normalizeUrl(agg.rankedUrls[i].url)))

\* C18: in the result of aggregateAndRank and of aggregateAndRankReddit every
\* ranked record has isConsensus = (frequency >= frequencyThreshold), the
\* threshold applied after fallback, so every returned record is marked
\* consensus.
C18_ConsensusFollowsAppliedThreshold ==
  agg.pc = "done" =>
    \A i \in DOMAIN agg.rankedUrls :
      /\ agg.rankedUrls[i].isConsensus =
           (agg.rankedUrls[i].frequency >= agg.frequencyThreshold)
      /\ agg.rankedUrls[i].isConsensus

\* the number of aggregated records with frequency >= t
recordsFrom(t) ==
  Cardinality({i \in DOMAIN agg.urlMap : agg.urlMap[i].frequency >= t})

\* the first threshold of the sequence that at least minConsensusUrls records
\* reach, the last threshold when there is none
firstQualifying(thresholds) ==
  LET ok == {k \in DOMAIN thresholds :
               recordsFrom(thresholds[k]) >= agg.minConsensusUrls}
  IN IF ok = {} THEN thresholds[Len(thresholds)]
     ELSE thresholds[CHOOSE k \in ok : \A j \in ok : k <= j]

\* What holds of every call that has returned: the thresholds tried are the
\* start of the sequence up to the applied one, the applied one is the first
\* that qualifies or else 1, and rankedUrls holds each record with frequency
\* >= frequencyThreshold once and no other.
fallbackResult ==
  LET thresholds == thresholdsOf(agg.fn)
      kept == {i \in DOMAIN agg.urlMap :
                 agg.urlMap[i].frequency >= agg.frequencyThreshold}
  IN /\ agg.tried = SubSeq(thresholds, 1, Len(agg.tried))
     /\ agg.tried # <<>>
     /\ agg.frequencyThreshold = agg.tried[Len(agg.tried)]
     /\ agg.frequencyThreshold = firstQualifying(thresholds)
     /\ Len(agg.rankedUrls) = Cardinality(kept)
     /\ \A i \in kept : \E j \in DOMAIN agg.rankedUrls :
          /\ normalizeUrl(agg.rankedUrls[j].url) = agg.urlMap[i].key
          /\ agg.rankedUrls[j].frequency = agg.urlMap[i].frequency

\* C19: aggregateAndRank tries 3, 2, 1 in that order (aggregateAndRankReddit
\* 2, 1) and applies the first threshold that at least minConsensusUrls
\* records reach, or 1 when none does; rankedUrls is exactly the records with
\* frequency >= frequencyThreshold; and every call returns, also when every
\* query has zero results.
C19_FallbackTerminates ==
  /\ [](agg.pc = "done" => fallbackResult)
  /\ <>(agg.pc = "done")

\* A call of aggregateAndRank has returned that fell back from 3 to 2, where
\* enough records qualified, and left records of frequency 1 out.
C19_Witness ==
  /\ agg.pc = "done"
  /\ agg.fn = "aggregateAndRank"
  /\ agg.tried = <<3, 2>>
  /\ Len(agg.rankedUrls) >= agg.minConsensusUrls
  /\ Len(agg.rankedUrls) < Len(agg.urlMap)

\* C20: aggregateAndRank([]) and aggregateAndRankReddit of an empty Map, with
\* the default minConsensusUrls, return an empty ranked list, the first
\* (strictest) threshold of the sequence as frequencyThreshold, and no
\* thresholdNote.
C20_ZeroQueriesStrictest ==
  (/\ agg.pc = "done"
   /\ Len(agg.searches) = 0
   /\ agg.minConsensusUrls = defaultMinConsensusUrls(agg.fn)) =>
    /\ Len(agg.rankedUrls) = 0
    /\ agg.frequencyThreshold = thresholdsOf(agg.fn)[1]
    /\ agg.thresholdNote = "undefined"

\* the index in the Map of the record a ranked record was made from
recordOf(ranked) ==
  CHOOSE i \in DOMAIN agg.urlMap : agg.urlMap[i].key = normalizeUrl(ranked.url)

\* score a >= score b, for two scores of one list: they are fractions of the
\* same maxScore
scoreAtLeast(a, b) == a.den = b.den /\ a.num >= b.num

\* C21: the returned list is sorted by totalScore descending, records of equal
\* totalScore in the order they were first met; rank is 1, 2, ..., n along
\* it; a record of higher totalScore has the smaller rank and a score at
\* least as high.
C21_RankingOrder ==
  agg.pc = "done" =>
    /\ \A i \in DOMAIN agg.rankedUrls : agg.rankedUrls[i].rank = i
    /\ \A i, j \in DOMAIN agg.rankedUrls :
         LET a == agg.urlMap[recordOf(agg.rankedUrls[i])]
             b == agg.urlMap[recordOf(agg.rankedUrls[j])]
         IN /\ i < j => a.totalScore >= b.totalScore
            /\ (i < j /\ a.totalScore = b.totalScore) =>
                 recordOf(agg.rankedUrls[i]) < recordOf(agg.rankedUrls[j])
            /\ a.totalScore > b.totalScore =>
                 /\ agg.rankedUrls[i].rank < agg.rankedUrls[j].rank
                 /\ scoreAtLeast(agg.rankedUrls[i].score, agg.rankedUrls[j].score)

\* A returned list holds two records of equal totalScore and a third of a
\* lower one, and its order is not the order of the Map.
C21_Witness ==
  /\ agg.pc = "done"
  /\ \E i, j, k \in DOMAIN agg.rankedUrls :
       /\ i < j /\ j < k
       /\ agg.urlMap[recordOf(agg.rankedUrls[i])].totalScore
            = agg.urlMap[recordOf(agg.rankedUrls[j])].totalScore
       /\ agg.urlMap[recordOf(agg.rankedUrls[j])].totalScore
            > agg.urlMap[recordOf(agg.rankedUrls[k])].totalScore
       /\ recordOf(agg.rankedUrls[k]) < recordOf(agg.rankedUrls[j])

\* the largest totalScore among the records of the returned list
maxTotalScore ==
  LET totals == {agg.urlMap[recordOf(agg.rankedUrls[i])].totalScore :
                   i \in DOMAIN agg.rankedUrls}
  IN CHOOSE m \in totals : \A t \in totals : t <= m

\* C22: in a non-empty result the record of rank 1 has score exactly 100 when
\* the largest totalScore is > 0, every score is in [0, 100], and every score
\* is 0 when the largest totalScore is 0.
C22_ScoreNormalized ==
  (agg.pc = "done" /\ Len(agg.rankedUrls) > 0) =>
    /\ \A i \in DOMAIN agg.rankedUrls :
         LET score == agg.rankedUrls[i].score
         IN /\ score.den > 0
            /\ score.num >= 0
            /\ score.num <= 100 * score.den
            /\ maxTotalScore = 0 => score.num = 0
    /\ maxTotalScore > 0 =>
         agg.rankedUrls[1].score.num = 100 * agg.rankedUrls[1].score.den

\* aggregateAndRank has returned records whose every occurrence is at a
\* position of 30 or more.
C22_Witness ==
  /\ agg.pc = "done"
  /\ Len(agg.rankedUrls) > 1
  /\ maxTotalScore = 0
  /\ \A i \in DOMAIN agg.rankedUrls :
       \A k \in DOMAIN agg.rankedUrls[i].positions :
         agg.rankedUrls[i].positions[k] >= 30

\* C23: normalizeUrl(normalizeUrl(u)) = normalizeUrl(u) for every URL string
\* u, also when its path is just "/", when its path ends in several "/", or
\* when its query string ends in "/".
C23_NormalizeIdempotent ==
  (eval.fn = "normalizeUrl" /\ eval.pc = "twice") => eval.result[2] = eval.result[1]

\* the occurrences of a key in the searches, as <<search, result>>
occurrencesOf(key) ==
  {o \in UNION {{<<s, r>> : r \in DOMAIN agg.searches[s].results} :
                s \in DOMAIN agg.searches} :
     normalizeUrl(agg.searches[o[1]].results[o[2]].link) = key}

\* the position the loop gives an occurrence
positionOf(o) ==
  IF agg.fn = "aggregateAndRank"
  THEN agg.searches[o[1]].results[o[2]].position
  ELSE o[2]

\* the occurrence of the lowest position, the earliest of them
bestOccurrence(key) ==
  CHOOSE o \in occurrencesOf(key) :
    \A q \in occurrencesOf(key) :
      \/ positionOf(o) < positionOf(q)
      \/ /\ positionOf(o) = positionOf(q)
         /\ (o[1] < q[1] \/ (o[1] = q[1] /\ o[2] <= q[2]))

\* C24: after aggregation the title of a record (and with it snippet and
\* date) is that of its occurrence with the lowest position among all its
\* occurrences.
C24_MetadataOfBestPosition ==
  agg.pc \in {"rank", "done"} =>
    \A i \in DOMAIN agg.urlMap :
      agg.urlMap[i].title = bestOccurrence(agg.urlMap[i].key)

\* the sum of getCtrWeight(p) over the first k positions of a list
RECURSIVE sumCtrWeight(_, _)
sumCtrWeight(positions, k) ==
  IF k = 0 THEN 0
  ELSE sumCtrWeight(positions, k - 1) + getCtrWeight(positions[k])

\* the lowest position of a non-empty list
minPosition(positions) ==
  CHOOSE p \in {positions[k] : k \in DOMAIN positions} :
    \A k \in DOMAIN positions : p <= positions[k]

\* C25: after every merge step, bestPosition = min(positions) and totalScore
\* is the sum of ctrWeight(p) over the positions; the same URL at positions
\* 1, 1, 2 has frequency 3 and totalScore 100 + 100 + 60 = 260.
C25_DerivedFieldsConsistent ==
  agg.pc # "off" =>
    \A i \in DOMAIN agg.urlMap :
      LET record == agg.urlMap[i]
      IN /\ record.bestPosition = minPosition(record.positions)
         /\ record.totalScore = sumCtrWeight(record.positions, Len(record.positions))
         /\ record.positions = <<1, 1, 2>> =>
              record.frequency = 3 /\ record.totalScore = 26000

\* A call has returned with a record merged from occurrences at positions
\* 1, 1 and 2 of three queries.
C25_Witness ==
  /\ agg.pc = "done"
  /\ \E i \in DOMAIN agg.urlMap :
       /\ agg.urlMap[i].positions = <<1, 1, 2>>
       /\ agg.urlMap[i].queries = <<1, 2, 3>>
       /\ agg.urlMap[i].totalScore = 26000

\* C26: a thresholdNote is returned exactly when the applied threshold is
\* less strict than the first of the sequence: by aggregateAndRank iff
\* frequencyThreshold < 3, by aggregateAndRankReddit iff frequencyThreshold
\* < 2, whatever the number of queries.
C26_NoteIffThresholdLowered ==
  agg.pc = "done" =>
    ((agg.thresholdNote # "undefined")
       <=> (agg.frequencyThreshold < thresholdsOf(agg.fn)[1]))

\* errorMsg.includes('429') || errorMsg.includes('rate'), the test by which
\* batchGetPosts counts a rejection as a rate-limit hit, on the messages
\* getPost rejects with (post URLs are taken to contain neither text; the
\* test is case sensitive, so 'Rate limit exceeded' does not pass it).
countsAsRateLimit(e) == e.msg = "Reddit API error: " /\ e.arg = 429

\* getPost gave up because the upstream answered 429 to its last attempt
rateLimitedOut(cr) ==
  /\ cr.pc = "rejected"
  /\ cr.attempt = RETRY_COUNT
  /\ cr.answers # <<>>
  /\ cr.answers[Len(cr.answers)].kind = "http"
  /\ cr.answers[Len(cr.answers)].status = 429

\* C27: batchGetPosts counts a failed target in rateLimitHits exactly when
\* its failure was caused by rate limiting (429 until getPost gave up), and
\* counts no target that failed for another reason.
C27_RateLimitHitsCountRateLimits ==
  \A c \in DOMAIN calls :
    calls[c].pc = "rejected" =>
      (countsAsRateLimit(calls[c].thrown) <=> rateLimitedOut(calls[c]))

\* the first list index that holds URL u
firstIndex(u) == CHOOSE i \in 1..Len(urls) :
                   urls[i] = u /\ \A j \in 1..(i - 1) : urls[j] # u

\* C28: in whatever order the getPost calls of a group settle, the result Map
\* of batchGetPosts and of getPosts holds the URLs in their order in the input
\* list, and once the call has returned it holds every URL of the list.
C28_InputOrderKept ==
  /\ \A j, k \in DOMAIN allResults :
       j < k => firstIndex(allResults[j].url) < firstIndex(allResults[k].url)
  /\ bpc = "resolved" =>
       {allResults[j].url : j \in DOMAIN allResults} = {urls[i] : i \in DOMAIN urls}

\* batchGetPosts has returned a Map of three or more URLs after a group in
\* which a getPost settled before one of a lower index.
C28_Witness ==
  /\ bpc = "resolved"
  /\ batchResult # <<>>
  /\ outOfOrder
  /\ Len(allResults) >= 3

\* the pauses of batchGetPosts so far are those between the groups run so far
redditPauses ==
  /\ \A k \in DOMAIN batchSleeps : batchSleeps[k] = BATCH_PAUSE_MS
  /\ bpc = "init" => batchSleeps = <<>>
  /\ bpc = "await" => Len(batchSleeps) = batchNum
  /\ bpc = "sleep" => Len(batchSleeps) = batchNum + 1 /\ batchNum + 1 < totalBatches
  /\ bpc = "resolved" => Len(batchSleeps) = Max(0, totalBatches - 1)

\* the same for batchScrape
scraperPauses ==
  (eval.fn = "batchScrape" /\ eval.pc # "input") =>
    LET r == eval.result
        batches == scrapeBatches(eval.arg.n)
    IN /\ \A k \in DOMAIN r.sleeps : r.sleeps[k] = SCRAPER_BATCH_PAUSE_MS
       /\ eval.pc \in {"await", "rejected"} => Len(r.sleeps) = r.batchNum
       /\ eval.pc = "delay" => Len(r.sleeps) = r.batchNum + 1 /\ r.batchNum + 1 < batches
       /\ eval.pc = "resolved" => Len(r.sleeps) = Max(0, batches - 1)

abortRule(e) == e.dom /\ e.name = "AbortError"
transportRule(e) == e.code \in {"ECONNREFUSED", "ENOTFOUND", "ECONNRESET"}
timeoutRule(e) ==
  \/ e.code \in {"ECONNABORTED", "ETIMEDOUT"}
  \/ e.name = "AbortError"
  \/ msgIncludes(e.msg, "timeout") \/ msgIncludes(e.msg, "timed out")
statusRule(e) == e.status # 0
apiKeyRule(e) ==
  \/ msgIncludes(e.msg, "API_KEY") \/ msgIncludes(e.msg, "api_key")
  \/ msgIncludes(e.msg, "Invalid API")
parseRule(e) ==
  \/ msgIncludes(e.msg, "JSON") \/ msgIncludes(e.msg, "parse")
  \/ msgIncludes(e.msg, "Unexpected token")

\* the number of the earliest rule an error matches, 7 for the fallback
earliestRule(e) ==
  CASE abortRule(e) -> 1
    [] ~abortRule(e) /\ transportRule(e) -> 2
    [] ~abortRule(e) /\ ~transportRule(e) /\ timeoutRule(e) -> 3
    [] ~abortRule(e) /\ ~transportRule(e) /\ ~timeoutRule(e) /\ statusRule(e) -> 4
    [] OTHER -> IF apiKeyRule(e) THEN 5 ELSE IF parseRule(e) THEN 6 ELSE 7

\* C30: classifyError gives an error the result of the earliest rule it
\* matches, in the order abort, transport fault code, timeout marker, HTTP
\* status table, API-key text, parse text, fallback UNKNOWN_ERROR with the
\* message cut to 500 characters; status 401 with a 'timeout' message is
\* TIMEOUT, code ECONNRESET with status 404 is NETWORK_ERROR, both retryable.
C30_ClassifyPrecedence ==
  (eval.fn = "classifyError" /\ eval.pc = "done") =>
    LET e == eval.arg
        r == eval.result
        k == earliestRule(e)
    IN /\ k \in {1, 3} => r.code = "TIMEOUT" /\ r.retryable
       /\ k = 2 => r.code = "NETWORK_ERROR" /\ r.retryable
       /\ k = 4 => r = classifyHttpError(e.status)
       /\ k = 5 => r.code = "AUTH_ERROR" /\ ~r.retryable
       /\ k = 6 => r.code = "PARSE_ERROR" /\ ~r.retryable
       /\ k = 7 => /\ r.code = "UNKNOWN_ERROR" /\ ~r.retryable
                   /\ r.message = substring500(e.msg)
                   /\ e.msg = LongMessage => r.message = LongMessageHead
       /\ (e.status = 401 /\ e.msg = "Request timeout" /\ e.code = "" /\ ~e.dom) =>
            r.code = "TIMEOUT" /\ r.retryable
       /\ (e.code = "ECONNRESET" /\ e.status = 404 /\ ~abortRule(e)) =>
            r.code = "NETWORK_ERROR" /\ r.retryable

\* classifyError has returned for an error of status 401 whose message holds
\* 'timeout' and that matches no earlier rule.
C30_Witness ==
  /\ eval.fn = "classifyError" /\ eval.pc = "done"
  /\ eval.arg.status = 401 /\ eval.arg.msg = "Request timeout"
  /\ eval.arg.code = "" /\ eval.arg.name = "Error" /\ ~eval.arg.dom
  /\ eval.result.code = "TIMEOUT"
\* the i-th data request of the call timed out
timedOut(cr, i) == i <= Len(cr.answers) /\ cr.answers[i] = FetchThrows(AbortError)

\* caller c's pending data request times out in this step
timesOutNow(c) ==
  /\ calls[c].pc = "dataFetch"
  /\ calls'[c].answers = Append(calls[c].answers, FetchThrows(AbortError))

\* what holds of every call in every state
timeoutHandled ==
  \A c \in DOMAIN calls :
    LET cr == calls[c]
    IN /\ (cr.timer = "pending") <=> (cr.pc \in {"authFetch", "dataFetch"})
       /\ \A i \in 1..Len(cr.answers) :
            timedOut(cr, i) =>
              /\ classifyError(cr.answers[i].err).code = "TIMEOUT"
              /\ classifyError(cr.answers[i].err).retryable
              /\ i < RETRY_COUNT =>
                    /\ Len(cr.sleeps) >= i
                    /\ cr.sleeps[i] = REDDIT_RETRY_DELAYS[i]
                    /\ cr.dataReqs >= i + 1 \/ cr.pc = "dataSleep"
              /\ i = RETRY_COUNT => cr.pc = "rejected" /\ Len(cr.sleeps) = i - 1

\* C31: a data request that exceeds its timeout is aborted, classified
\* TIMEOUT with retryable = true, and retried by getPost like any other
\* retryable failure, after a sleep of RETRY_DELAYS[attempt]; the sibling
\* calls are left as they are; and the timer of fetchWithTimeout is pending
\* only while the request is.
C31_TimeoutRetried ==
  /\ []timeoutHandled
  /\ [][\A c, d \in DOMAIN calls :
          (c # d /\ timesOutNow(c)) => calls'[d] = calls[d]]_vars

\* A call timed out twice and then got its post, while its sibling was
\* waiting for its own data.
C31_Witness ==
  /\ Len(calls) = 2
  /\ calls[1].pc = "fulfilled"
  /\ Len(calls[1].answers) = 3
  /\ timedOut(calls[1], 1) /\ timedOut(calls[1], 2)
  /\ calls[1].sleeps = <<2000, 4000>>
  /\ calls[1].timer = "cleared"
  /\ calls[2].pc = "dataFetch" /\ calls[2].answers = <<>>

sleepCalled == eval.fn = "sleep" /\ eval.pc = "called"

\* what holds of the sleep call in every state
sleepOutcome ==
  sleepCalled =>
    LET st == eval.result
    IN /\ st.abortedAtCall => st.timer = "none" /\ st.promise = "rejected"
       /\ st.abortedWhen = "pending" => st.timer = "cleared" /\ st.promise = "rejected"
       /\ st.timer = "fired" => st.promise = "resolved"
       /\ st.promise = "resolved" => st.timer = "fired"
       /\ st.timer = "pending" => st.promise = "pending"
       /\ st.promise # "pending" => st.promise = st.settles[1]

\* C32: sleep(ms, signal) settles exactly once: it rejects at once, setting
\* no timer, when the signal is already aborted; an abort while the timer is
\* pending clears the timer and rejects; otherwise it resolves when the
\* timer fires, and a later abort does not change the outcome.
C32_SleepSettlesOnce ==
  /\ []sleepOutcome
  /\ [][(sleepCalled /\ eval.result.promise # "pending") =>
          eval'.result.promise = eval.result.promise]_vars
  /\ <>(sleepCalled /\ eval.result.promise # "pending")

\* The timer of a sleep of 1000 ms fired and the signal aborted afterwards:
\* resolve and reject were both called and the promise stays resolved.
C32_Witness ==
  /\ sleepCalled
  /\ eval.arg.ms = 1000
  /\ eval.result.settles = <<"resolved", "rejected">>
  /\ eval.result.promise = "resolved"
  /\ eval.result.abortedWhen = "fired"

\* the failure that the answer ans is, as classifyError sees it
failureOf(ans) ==
  IF ans.kind = "throw" THEN classifyError(ans.err)
  ELSE classifyError(StatusObject(ans.status))

\* the error e carries the classified failure le: its message, or its status
carries(e, le) ==
  \/ e.msg = le.message
  \/ le.statusCode # 0 /\ e.arg = le.statusCode

\* getPost used up its attempts: all five requests failed, the last one
\* with a failure that is retryable
attemptsExhausted(cr) ==
  /\ cr.pc = "rejected"
  /\ Len(cr.answers) = RETRY_COUNT
  /\ cr.answers[RETRY_COUNT].kind = "http" => cr.answers[RETRY_COUNT].status # 200
  /\ failureOf(cr.answers[RETRY_COUNT]).retryable

\* the message of the error that scrape makes of the answer ans
scrapeFailureMessage(ans) ==
  IF ans.kind = "throw" THEN ans.err.msg
  ELSE IF ans.status = 429 THEN "Scraper rate limited. Try fewer URLs or retry later."
  ELSE "Scraper API error: "

\* C33: getPost issues at most RETRY_COUNT data requests and scrape at most
\* maxRetries requests, and the error raised after the attempts are used up
\* carries the last failure, as classified.
C33_AttemptBudget ==
  /\ \A c \in DOMAIN calls :
       /\ calls[c].dataReqs <= RETRY_COUNT
       /\ attemptsExhausted(calls[c]) =>
            carries(calls[c].thrown, failureOf(calls[c].answers[RETRY_COUNT]))
  /\ scrape.reqs <= scrape.maxRetries
  /\ (scrape.pc = "rejected" /\ scrape.maxRetries > 0
       /\ Len(scrape.answers) = scrape.maxRetries) =>
         \/ scrape.inner = scrapeFailureMessage(scrape.answers[Len(scrape.answers)])
         \/ scrape.thrown = scrapeFailureMessage(scrape.answers[Len(scrape.answers)])

\* C34: in getPost every backoff sleep is followed by another data request:
\* a call never sleeps after its last attempt, so it sleeps at most once
\* less than it issues data requests, and at most RETRY_COUNT - 1 times.
C34_NoSleepAfterLastAttempt ==
  \A c \in DOMAIN calls :
    LET cr == calls[c]
    IN /\ cr.pc = "dataSleep" => cr.attempt < RETRY_COUNT - 1
       /\ (cr.pc \in {"fulfilled", "rejected"} /\ cr.dataReqs > 0) =>
            Len(cr.sleeps) <= cr.dataReqs - 1
       /\ Len(cr.sleeps) <= RETRY_COUNT - 1

\* the entries of the Map that handleGetRedditPosts counts as successful
\* and as failed (tools/reddit.ts lines 131-141)
successfulOf(results) == Cardinality({k \in 1..Len(results) : results[k].val = "PostResult"})
failedOf(results) == Cardinality({k \in 1..Len(results) : results[k].val # "PostResult"})

\* C35: the outcome map has one entry per target: for every URL list,
\* lists with repeated URLs included, results.size = totalPosts =
\* urls.length, so the successes and failures counted from the map add up
\* to the number of URLs requested.
C35_OneEntryPerTarget ==
  bpc = "resolved" =>
    LET r == batchResult[1]
    IN /\ r.totalPosts = Len(urls)
       /\ Len(r.results) = r.totalPosts
       /\ successfulOf(r.results) + failedOf(r.results) = Len(urls)

\* how batchGetPosts sees the settled call cr (reddit.ts lines 352-363)
settledAs(cr) ==
  IF cr.pc = "fulfilled" THEN "ok"
  ELSE IF countsAsRateLimit(cr.thrown) THEN "rate" ELSE "other"

AuthenticationFailed == NewError("Reddit authentication failed - check credentials", 0)

\* C36: auth never raises and issues at most 3 token requests per call,
\* returning null on failure; when auth returns null, getPost rejects with
\* the authentication error without issuing a data request, and the
\* batch records that rejection as the target's failure.
C36_AuthFailureContained ==
  \A c \in DOMAIN calls :
    LET cr == calls[c]
    IN /\ cr.tokenReqs <= AUTH_ATTEMPTS
       /\ Len(cr.tokenAnswers) <= cr.tokenReqs
       /\ cr.pc = "rejected" => cr.authVia = "null" /\ cr.thrown = AuthenticationFailed
       /\ cr.authVia = "null" =>
            /\ cr.pc = "rejected"
            /\ cr.thrown = AuthenticationFailed
            /\ cr.dataReqs = 0 /\ cr.answers = <<>>
            /\ MapSet(<<>>, c, recordedValue(settledAs(cr))) = <<[url |-> c, val |-> "Error"]>>

\* Three token requests were answered 500, 500 and with a transport failure:
\* auth gave up and getPost rejected without a data request.
C36_Witness ==
  \E c \in DOMAIN calls :
    /\ calls[c].tokenReqs = 3
    /\ Len(calls[c].tokenAnswers) = 3
    /\ calls[c].tokenAnswers[1].status = 500
    /\ calls[c].tokenAnswers[3].kind = "throw"
    /\ calls[c].authVia = "null"
    /\ calls[c].pc = "rejected"
    /\ calls[c].dataReqs = 0

\* kind 't1', author present and not '[deleted]'
eligible(c) == c.kind = "t1" /\ c.author # "" /\ c.author # "[deleted]"

\* The first limit eligible comments of the depth-first pre-order traversal
\* of the tree from the k-th of the sorted items on, siblings by descending
\* score, each with its nesting level; only comments (kind 't1') have
\* replies.
RECURSIVE preorder(_, _, _, _, _)
preorder(sorted, k, depth, acc, limit) ==
  IF k > Len(sorted) \/ Len(acc) >= limit THEN acc
  ELSE LET c == sorted[k]
           here == IF eligible(c)
                   THEN Append(acc, [author |-> c.author, score |-> c.score,
                                     depth |-> depth, isOP |-> c.author = "op"])
                   ELSE acc
           below == IF c.kind = "t1"
                    THEN preorder(sortByScore(c.replies), 1, depth + 1, here, limit)
                    ELSE here
       IN preorder(sorted, k + 1, depth, below, limit)

\* C37: extractComments returns exactly the first min(maxComments, n)
\* elements of the depth-first pre-order traversal of the n eligible
\* comments of the tree, each with its nesting level as depth; never more
\* than maxComments, and none when maxComments = 0.
C37_PreorderPrefix ==
  (eval.fn = "extractComments" /\ eval.pc = "done") =>
    /\ eval.result = preorder(sortByScore(ExtractListings[eval.arg.listing]), 1, 0, <<>>,
                              eval.arg.maxComments)
    /\ Len(eval.result) <= eval.arg.maxComments

\* C38: scrapeWithFallback tries basic, javascript, javascript + US in that
\* order, returns the result of the first mode whose scrape succeeds and
\* tries no later mode, goes to the next mode after any failure of the
\* current one, raises only after all three modes failed, and issues at
\* most 3 * RETRY_COUNT = 9 requests; scrape returns only 2xx responses.
C38_FallbackOrder ==
  LET fb == scrape.fb
  IN fb.pc \in {"running", "returned", "threw"} =>
       /\ fb.tried = SubSeq(FallbackModes, 1, fb.mode)
       /\ fb.reqs <= 3 * SCRAPER_RETRY_COUNT /\ fb.reqs <= 9
       /\ scrape.reqs <= SCRAPER_RETRY_COUNT
       /\ fb.pc \in {"running", "returned"} => Len(fb.attemptResults) = fb.mode - 1
       /\ fb.pc = "returned" =>
            /\ scrape.pc = "fulfilled"
            /\ fb.result.statusCode = scrape.answers[Len(scrape.answers)].status
       /\ fb.pc = "threw" =>
            /\ fb.tried = FallbackModes
            /\ Len(fb.attemptResults) = Len(FallbackModes)
       /\ scrape.pc = "fulfilled" =>
            /\ scrape.answers[Len(scrape.answers)].status >= 200
            /\ scrape.answers[Len(scrape.answers)].status < 300
            /\ fb.pc = "returned"

\* basic mode was answered 404 and gave up at once, javascript rendering
\* failed three times with 500, and the third mode succeeded.
C38_Witness ==
  /\ scrape.fb.pc = "returned"
  /\ scrape.fb.mode = 3
  /\ scrape.fb.attemptResults =
       <<"Scraper API error: ", "Failed to scrape URL after maxRetries attempts: ">>
  /\ scrape.fb.reqs = 5
  /\ scrape.fb.result = [statusCode |-> 200, credits |-> 5]

\* the completion call with outcome o produced no usable completion: it
\* failed or returned no choice
unusable(o) == o.kind = "throw" \/ ~o.choice

\* C39: research never throws: it makes at most maxRetries + 1 = 4
\* completion calls with exactly one backoff sleep between consecutive
\* calls, stops after the first failure that isRetryableError rejects, and
\* returns a response whose error field is set whenever no call produced a
\* usable completion.
C39_ResearchNeverThrows ==
  eval.fn = "research" =>
    LET r == eval.result
    IN /\ eval.pc \in {"input", "call", "sleep", "returned"}
       /\ r.calls <= RESEARCH_MAX_RETRIES + 1 /\ r.calls <= 4
       /\ eval.pc \in {"call", "returned"} /\ r.calls > 0 => Len(r.sleeps) = r.calls - 1
       /\ eval.pc = "sleep" => Len(r.sleeps) = r.calls /\ r.calls <= RESEARCH_MAX_RETRIES
       /\ \A i \in 1..Len(r.outcomes) :
            (r.outcomes[i].kind = "throw" /\ ~isRetryableError(r.outcomes[i].err)) =>
              i = Len(r.outcomes) /\ eval.pc = "returned"
       /\ (eval.pc = "returned" /\ \A i \in 1..Len(r.outcomes) : unusable(r.outcomes[i])) =>
            r.response.error # "none"

====
